---------------------------- MODULE Spec2Model ----------------------------
(***************************************************************************)
(* A model of humble-control-center: the asset store (asset_db.py), the    *)
(* sync coordinator (ui_server.py) and the download manager                *)
(* (download_library.py) and the indexer (library_index.py).  The          *)
(* specifications of the module:                                           *)
(*   SpecDB     the asset store under sequences of store operations        *)
(*   SpecCoord  the coordinator's sync / download jobs and request threads *)
(*   SpecDL     one DownloadLibrary.start() run with its worker pool       *)
(*   SpecIdx    one LibraryIndexer.collect() pass over the purchase keys   *)
(*   SpecProd   one product through the indexer, the extension filters,    *)
(*              and the classifier                                         *)
(*   SpecBus    the event bus with its subscribers and one publisher       *)
(*   SpecMeta   one background enrichment pass of the coordinator          *)
(***************************************************************************)
EXTENDS Integers, Sequences, FiniteSets, TLC

(***************************************************************************)
(* Bounds of the model.                                                    *)
(***************************************************************************)
MaxUpserts == 3      \* store operations in one behaviour of SpecDB
MaxJobs == 2         \* jobs (sync or download) started in one behaviour of SpecCoord
MaxThreads == 2      \* job threads alive at once in SpecCoord
FileChunks == 2      \* chunks in the complete body of a remote file
NumTargets == 2      \* download targets of one DownloadLibrary.start() run
MaxWorkers == 2      \* worker threads of the download manager's pool
MaxKeys == 3         \* purchase keys of one collect() pass
MaxQueues == 3       \* subscriber queues created in one behaviour of SpecBus
MaxEvents == 2       \* events published in one behaviour of SpecBus
MetaItems == 2       \* assets (orders) each step of an enrichment pass finds

NULL == "NULL"       \* SQL NULL / Python None in a text column

VARIABLES
    \* ---- asset store (sqlite tables of asset_db.py)
    assets,           \* table assets: id -> row
    asset_tags,       \* table asset_tags: set of [rowid, asset_id, tag]
    assets_fts,       \* table assets_fts: rowid -> indexed text
    sqlite_sequence,  \* AUTOINCREMENT counter of table assets
    nops,             \* number of store operations performed (bounded)
    op,               \* the last store operation and its arguments
    \* ---- the library directory
    fs,               \* path -> size in chunks, for the files that exist
    \* ---- Coordinator
    syncing, downloading, stop_event,
    download_total, download_done, download_failures, download_skipped,
    threads,          \* job threads: slot -> [kind, pc, todo, written, event]
    njobs,            \* jobs started so far (bounded)
    interrupted,      \* paths whose transfer a cancellation broke off
    \* ---- DownloadLibrary (download_library.py)
    cfg,              \* the run's options and what it finds for target 1
    cache_data,       \* self.cache_data: target (its cache key) -> entry, "" if none
    cache_file,       \* the entries the file .cache.json holds
    _cache_lock,      \* the threads inside "with self._cache_lock"
    calls,            \* target -> the outcome callbacks invoked for it, in order
    fetched,          \* targets whose remote file was requested
    task,             \* target -> state of its task in the task runner
    queue,            \* the executor's work queue
    workers,          \* thread -> [pc, tgt, written, avail, declared, info]
    main,             \* the thread running start(): [pc, next]
    hist,             \* what happened to the targets' transfers (history)
    \* ---- LibraryIndexer (library_index.py)
    idx,              \* one collect() pass: its position and local variables
    prod,             \* one product through the indexer / filters / classifier
    \* ---- EventBus and metadata worker (ui_server.py)
    bus,              \* the event bus: subscribers, queues, publisher
    meta              \* one background enrichment pass: its position and log

dbVars == <<assets, asset_tags, assets_fts, sqlite_sequence, nops, op>>
coordVars == <<syncing, downloading, stop_event, download_total, download_done,
               download_failures, download_skipped, threads, njobs, interrupted>>
coordRest == <<syncing, downloading, download_total, download_done,
               download_failures, download_skipped, threads, njobs, interrupted>>
dlVars == <<cfg, cache_data, cache_file, _cache_lock, calls, fetched, task, queue,
            workers, main, hist>>
auxVars == <<prod, bus, meta>>
vars == <<dbVars, fs, coordVars, dlVars, idx, auxVars>>

(***************************************************************************)
(* Text helpers.                                                           *)
(***************************************************************************)
\* str.lower() on the strings of the model.
Lower(s) ==
    CASE s = "Comic" -> "comic"
      [] s = "EBook" -> "ebook"
      [] s = " PDF " -> " pdf "
      [] s = "PDF" -> "pdf"
      [] s = "ZIP" -> "zip"
      [] s = "F2.PDF" -> "f2.pdf"
      [] s = "README" -> "readme"
      [] s = "Windows" -> "windows"
      [] s = "B1" -> "b1"
      [] OTHER -> s

\* str.strip() on the strings of the model.
Strip(s) ==
    CASE s = " PDF " -> "PDF"
      [] s = " pdf " -> "pdf"
      [] s = " " -> ""
      [] OTHER -> s

\* The elements of a list.
Range(s) == {s[i] : i \in DOMAIN s}

\* os.path.join for non-absolute components.
PathJoin(a, b) == IF a = "" THEN b ELSE a \o "/" \o b

\* json.dumps of a list of urls, and _parse_download_urls of the stored text.
JsonDumps(l) ==
    CASE l = <<>> -> "[]"
      [] l = <<"u1">> -> "[u1]"
      [] l = <<"u2?sig">> -> "[u2?sig]"
      [] OTHER -> "[?]"

_parse_download_urls(val) ==
    CASE val = NULL -> <<>>
      [] val = "" -> <<>>
      [] val = "[]" -> <<>>
      [] val = "[u1]" -> <<"u1">>
      [] val = "[u2?sig]" -> <<"u2?sig">>
      [] OTHER -> <<val>>

\* COALESCE(new, old) of SQL.
Coalesce(new, old) == IF new # NULL THEN new ELSE old

(***************************************************************************)
(* Asset store: upsert_assets.                                             *)
(* A connection is the record [assets, asset_tags, assets_fts, seq, last]; *)
(* last is sqlite3_last_insert_rowid() of the connection, which            *)
(* cursor.lastrowid reports after each statement.                          *)
(***************************************************************************)
Connect == [assets |-> assets, asset_tags |-> asset_tags,
            assets_fts |-> assets_fts, seq |-> sqlite_sequence, last |-> 0]

\* The row a payload is INSERTed as: the INSERT names 16 columns; the others
\* (download_urls, order_name, activation_key, download_error, downloaded)
\* take their defaults.
InsertedRow(id, data) ==
    [id |-> id,
     order_id |-> data.order_id, bundle_title |-> data.bundle_title,
     product_title |-> data.product_title, platform |-> data.platform,
     category |-> data.category, file_name |-> data.file_name,
     url |-> data.url, ext |-> data.ext, uploaded_at |-> data.uploaded_at,
     md5 |-> data.md5, trove |-> data.trove, size_bytes |-> data.size_bytes,
     added_ts |-> data.added_ts, download_path |-> data.download_path,
     image_url |-> data.image_url, description |-> data.description,
     download_urls |-> NULL, order_name |-> NULL, activation_key |-> NULL,
     download_error |-> NULL, downloaded |-> 0]

\* excluded.<column> of the ON CONFLICT clause: the row proposed for insertion.
Excluded(data) == InsertedRow(0, data)

\* ON CONFLICT(url) DO UPDATE SET ...
ConflictUpdate(old, data) ==
    LET excluded == Excluded(data) IN
    [old EXCEPT
       !.order_id = excluded.order_id,
       !.bundle_title = excluded.bundle_title,
       !.product_title = excluded.product_title,
       !.platform = excluded.platform,
       !.category = Coalesce(excluded.category, old.category),
       !.file_name = excluded.file_name,
       !.ext = excluded.ext,
       !.uploaded_at = excluded.uploaded_at,
       !.md5 = excluded.md5,
       !.trove = excluded.trove,
       !.size_bytes = excluded.size_bytes,
       !.order_name = Coalesce(excluded.order_name, old.order_name),
       !.download_path = Coalesce(excluded.download_path, old.download_path),
       !.download_urls = Coalesce(excluded.download_urls, old.download_urls),
       !.image_url = Coalesce(excluded.image_url, old.image_url),
       !.description = Coalesce(excluded.description, old.description),
       !.activation_key = Coalesce(excluded.activation_key, old.activation_key),
       !.download_error = Coalesce(excluded.download_error, old.download_error)]

\* The rows whose url collides with a proposed one: url is UNIQUE, and SQL
\* NULLs never collide with each other.
ConflictIds(tbl, url) ==
    {i \in DOMAIN tbl : url # NULL /\ tbl[i].url = url}

\* SELECT id FROM assets WHERE url=?
SelectIdByUrl(tbl, url) == CHOOSE i \in DOMAIN tbl : tbl[i].url = url

\* INSERT OR IGNORE INTO asset_tags(asset_id, tag): a new rowid is the largest
\* one plus one, and a performed insert moves last_insert_rowid.
InsertTag(c, asset_id, tag) ==
    IF \E t \in c.asset_tags : t.asset_id = asset_id /\ t.tag = tag
    THEN c
    ELSE LET rid == IF c.asset_tags = {} THEN 1
                    ELSE 1 + CHOOSE m \in {t.rowid : t \in c.asset_tags} :
                                 \A t \in c.asset_tags : t.rowid <= m
         IN [c EXCEPT !.asset_tags = @ \cup
                         {[rowid |-> rid, asset_id |-> asset_id, tag |-> tag]},
                      !.last = rid]

RECURSIVE InsertTags(_, _, _)
InsertTags(c, asset_id, tags) ==
    IF tags = <<>> THEN c
    ELSE IF Head(tags) = ""
         THEN InsertTags(c, asset_id, Tail(tags))
         ELSE InsertTags(InsertTag(c, asset_id, Lower(Strip(Head(tags)))),
                         asset_id, Tail(tags))

\* The id the tags and the full-text entry of an upserted asset are attached
\* to: cur.lastrowid, or the SELECT by url when that is 0.
UpsertAssetId(c, url) ==
    IF c.last # 0 THEN c.last ELSE SelectIdByUrl(c.assets, url)

\* One iteration of the loop of upsert_assets; a payload without added_ts
\* (written 0) gets the time of the call.
UpsertOne(c, asset, now) ==
    LET data == [asset EXCEPT
                   !.download_urls = IF @ = NULL THEN NULL ELSE JsonDumps(@),
                   !.added_ts = IF @ = 0 THEN now ELSE @]
        hit == ConflictIds(c.assets, data.url)
        newid == c.seq + 1
        c1 == IF hit = {}
              THEN [c EXCEPT !.assets = @ @@ (newid :> InsertedRow(newid, data)),
                             !.seq = newid, !.last = newid]
              ELSE LET i == CHOOSE i \in hit : TRUE IN
                   [c EXCEPT !.assets[i] = ConflictUpdate(@, data),
                             !.seq = newid]
        asset_id == UpsertAssetId(c1, data.url)
        entry == [file_name |-> data.file_name,
                  product_title |-> data.product_title,
                  bundle_title |-> data.bundle_title]
        c2 == [c1 EXCEPT
                 !.assets_fts = [r \in DOMAIN @ \cup {asset_id} |->
                                    IF r = asset_id THEN entry ELSE @[r]],
                 !.last = asset_id]
    IN InsertTags(c2, asset_id, asset.tags)

RECURSIVE UpsertLoop(_, _, _)
UpsertLoop(c, batch, now) ==
    IF batch = <<>> THEN c
    ELSE UpsertLoop(UpsertOne(c, Head(batch), now), Tail(batch), now)

\* The commit of a connection's work to the tables.
Commit(c) ==
    /\ assets' = c.assets
    /\ asset_tags' = c.asset_tags
    /\ assets_fts' = c.assets_fts
    /\ sqlite_sequence' = c.seq


\* mark_downloaded(url, download_path)
mark_downloaded(tbl, url, download_path) ==
    IF url = "" \/ url = NULL THEN tbl
    ELSE [i \in DOMAIN tbl |->
            IF tbl[i].url # NULL /\ tbl[i].url = url
            THEN [tbl[i] EXCEPT !.downloaded = 1,
                                !.download_path = download_path,
                                !.download_error = NULL]
            ELSE tbl[i]]

\* mark_download_error(url, error)
mark_download_error(tbl, url, error) ==
    IF url = "" \/ url = NULL THEN tbl
    ELSE [i \in DOMAIN tbl |->
            IF tbl[i].url # NULL /\ tbl[i].url = url
            THEN [tbl[i] EXCEPT !.download_error = error]
            ELSE tbl[i]]

\* A probe that takes an empty file for a present one.
ExistsNonEmpty_AnySize(disk, path) == path \in DOMAIN disk

\* os.path.exists(path) and os.path.getsize(path) > 0
ExistsNonEmpty(disk, path) == path \in DOMAIN disk /\ disk[path] > 0

\* _candidate_paths(asset, library_path): the paths probed, in order.
_candidate_paths(asset, library_path) ==
    LET p1 == IF asset.download_path # NULL /\ asset.download_path # ""
              THEN <<asset.download_path>> ELSE <<>>
        named == library_path # "" /\ asset.file_name # NULL /\ asset.file_name # ""
        orEmpty(x) == IF x = NULL THEN "" ELSE x
        p2 == IF named /\ asset.trove = 1
              THEN <<PathJoin(PathJoin(PathJoin(library_path, "Humble Trove"),
                                       orEmpty(asset.product_title)), asset.file_name)>>
              ELSE <<>>
        p3 == IF named
              THEN <<PathJoin(PathJoin(PathJoin(library_path, orEmpty(asset.bundle_title)),
                                       orEmpty(asset.product_title)), asset.file_name),
                     PathJoin(library_path, asset.file_name)>>
              ELSE <<>>
    IN p1 \o p2 \o p3

\* The first candidate that exists with nonzero size, or NULL.
FirstPresent(disk, paths) ==
    LET hits == {k \in 1..Len(paths) : ExistsNonEmpty(disk, paths[k])}
    IN IF hits = {} THEN NULL
       ELSE paths[CHOOSE k \in hits : \A j \in hits : k <= j]

\* reconcile_downloaded(library_path): the table afterwards.
reconcile_downloaded(tbl, disk, library_path) ==
    IF library_path = "" THEN tbl
    ELSE [i \in DOMAIN tbl |->
            LET hit == FirstPresent(disk, _candidate_paths(tbl[i], library_path))
            IN IF hit = NULL THEN tbl[i]
               ELSE [tbl[i] EXCEPT !.downloaded = 1, !.download_path = hit]]

\* A count of the rows that were not marked downloaded before only.
reconcile_count_NewOnly(tbl, disk, library_path) ==
    IF library_path = "" THEN 0
    ELSE Cardinality({i \in DOMAIN tbl :
            /\ tbl[i].downloaded = 0
            /\ FirstPresent(disk, _candidate_paths(tbl[i], library_path)) # NULL})

\* The count reconcile_downloaded returns.
reconcile_count(tbl, disk, library_path) ==
    IF library_path = "" THEN 0
    ELSE Cardinality({i \in DOMAIN tbl :
            FirstPresent(disk, _candidate_paths(tbl[i], library_path)) # NULL})

\* ORDER BY added_ts DESC (ties in rowid order) over a set of ids.
RECURSIVE OrderByAddedDesc(_, _)
OrderByAddedDesc(tbl, ids) ==
    IF ids = {} THEN <<>>
    ELSE LET first == CHOOSE i \in ids : \A j \in ids :
                         \/ tbl[i].added_ts > tbl[j].added_ts
                         \/ (tbl[i].added_ts = tbl[j].added_ts /\ i <= j)
         IN <<tbl[first]>> \o OrderByAddedDesc(tbl, ids \ {first})

\* get_assets_pending_download(library_path, limit=None)
get_assets_pending_download(tbl, disk, library_path) ==
    LET rows == OrderByAddedDesc(tbl,
                  {i \in DOMAIN tbl :
                     \/ (tbl[i].download_urls # NULL /\ tbl[i].download_urls # "")
                     \/ tbl[i].url # NULL})
        needed(r) == r.downloaded = 0
                     \/ FirstPresent(disk, _candidate_paths(r, library_path)) = NULL
    IN SelectSeq(rows, needed)

\* stats()["downloaded"]
stats_downloaded(tbl) == Cardinality({i \in DOMAIN tbl : tbl[i].downloaded = 1})

(***************************************************************************)
(* The remote catalog and the payloads handed to the store.                *)
(***************************************************************************)
library_path == "lib"

\* LibraryIndexer._as_asset: the payload the Indexer builds for one file.
_as_asset(order_id, bundle_title, product_title, platform, category, file_name, url, trove, tags, download_urls, now) ==
    [order_id |-> order_id, bundle_title |-> bundle_title,
     product_title |-> product_title, platform |-> platform,
     category |-> Lower(IF category = NULL \/ category = "" THEN "other" ELSE category),
     file_name |-> file_name, url |-> url, ext |-> "pdf",
     uploaded_at |-> NULL, md5 |-> NULL, trove |-> IF trove THEN 1 ELSE 0,
     size_bytes |-> NULL,
     download_path |-> PathJoin(library_path,
                         IF trove
                         THEN PathJoin(PathJoin("Humble Trove", product_title), file_name)
                         ELSE PathJoin(PathJoin(bundle_title, product_title), file_name)),
     added_ts |-> now, image_url |-> NULL, description |-> NULL,
     tags |-> tags, order_name |-> bundle_title, activation_key |-> NULL,
     download_urls |-> download_urls, download_error |-> NULL]

\* Two files of the account, as the Indexer emits them at time now.
IndexedA1(now) == _as_asset("o1", "B1", "P1", "windows", "ebook", "f1.pdf",
                            "u1", FALSE, <<"ebook">>, <<"u1">>, now)
IndexedA2(now) == _as_asset("o2", "B2", "P2", "linux", "Comic", "f2.pdf",
                            "u2", FALSE, <<"comic">>, <<"u2?sig">>, now)

\* A caller's re-index of u1 that leaves the enriched fields absent and adds
\* a tag, and a payload that enriches u1.
ReindexA1 == [IndexedA1(0) EXCEPT !.category = NULL, !.download_path = NULL,
                                     !.download_urls = NULL, !.order_name = NULL,
                                     !.platform = "linux",
                                     !.tags = <<"ebook", " PDF ">>]
EnrichA1 == [IndexedA1(0) EXCEPT !.image_url = "img", !.description = "desc",
                                    !.activation_key = "KEY"]

\* A key-only entry of product P1 of order o1, as _collect_bundle_assets emits
\* it: url "", platform and category "key", the key as file name.
IndexedKey(key, now) == [_as_asset("o1", "B1", "P1", "key", "key", key, "", FALSE, <<"key">>, <<>>, now) EXCEPT !.ext = "", !.activation_key = key]

\* A file of the trove, as _collect_trove_assets emits it.
IndexedT1(now) == _as_asset("trove", "Humble Trove", "P3", "windows", "ebook", "f3.pdf",
                            "u3", TRUE, <<"ebook">>, <<>>, now)

\* A payload for u2 handed to upsert_assets with the category in the letter
\* case of the remote listing.
RawA2 == [IndexedA2(0) EXCEPT !.category = "Comic"]

\* What one sync pass of the bundles emits, and every payload of the model.
SyncPayloads == {IndexedA1(0), IndexedA2(0), IndexedKey("K1", 0), IndexedKey("K2", 0)}
Payloads == SyncPayloads \cup {ReindexA1, EnrichA1, IndexedT1(0), RawA2}

\* The batches handed to upsert_assets: one or two payloads.
Batches == {<<p>> : p \in Payloads} \cup {<<p, q>> : p, q \in SyncPayloads}

\* The library directories the store is reconciled against: files left by
\* earlier runs, by path and size.
Disks ==
    { <<>>,
      ("lib/B1/P1/f1.pdf" :> 0) @@ ("lib/f1.pdf" :> FileChunks),
      ("lib/Humble Trove/P1/f1.pdf" :> FileChunks) @@ ("lib/Humble Trove/P3/f3.pdf" :> FileChunks)
          @@ ("lib/f3.pdf" :> FileChunks),
      ("lib/B1/P1/f1.pdf" :> FileChunks) @@ ("lib/f1.pdf" :> FileChunks)
          @@ ("lib/f3.pdf" :> FileChunks) @@ ("lib/B2/P2/f2.pdf" :> 0) }

(***************************************************************************)
(* SpecDB: the asset store under sequences of store operations.            *)
(***************************************************************************)
NoOp == [name |-> "none", batch |-> <<>>]

\* A free thread slot.
IdleThread == [kind |-> "none", pc |-> "none", todo |-> <<>>, written |-> 0,
               event |-> ""]

\* A thread of the download manager that runs no task.
IdleWorker == [pc |-> "idle", tgt |-> 0, written |-> 0, avail |-> 0,
               declared |-> FALSE, info |-> ""]

\* No collect() pass.
IdxIdle ==
    idx = [pc |-> "idle", keys |-> <<>>, pos |-> 1, order_id |-> "", order |-> NULL,
           bundle_title |-> "", products |-> <<>>, bound |-> FALSE,
           assets |-> <<>>, fetched_ok |-> {}]

\* No product in the indexer, no event bus traffic, no enrichment pass.
AuxIdle ==
    /\ prod = [pc |-> "idle"]
    /\ bus = [pc |-> "idle", published |-> <<>>]
    /\ meta = [pc |-> "idle"]

\* No DownloadLibrary run.
DLIdle ==
    /\ cfg = [executor |-> FALSE, trove |-> FALSE, update |-> FALSE,
              cache0 |-> "", file0 |-> "absent"]
    /\ cache_data = [t \in 1..NumTargets |-> ""]
    /\ cache_file = [t \in 1..NumTargets |-> ""]
    /\ _cache_lock = {}
    /\ calls = [t \in 1..NumTargets |-> <<>>]
    /\ fetched = {}
    /\ task = [t \in 1..NumTargets |-> "none"]
    /\ queue = <<>>
    /\ workers = [w \in 0..MaxWorkers |-> IdleWorker]
    /\ main = [pc |-> "returned", next |-> 1]
    /\ hist = [short |-> {}, in_stream |-> {}, before_chunk |-> {}, persisted |-> {},
              denied |-> {}, not_modified |-> {}]

CoordIdle ==
    /\ syncing = FALSE /\ downloading = FALSE /\ stop_event = FALSE
    /\ download_total = 0 /\ download_done = 0
    /\ download_failures = 0 /\ download_skipped = 0
    /\ threads = [t \in 1..MaxThreads |-> IdleThread]
    /\ njobs = 0
    /\ interrupted = {}

InitDB ==
    /\ assets = <<>>
    /\ asset_tags = {}
    /\ assets_fts = <<>>
    /\ sqlite_sequence = 0
    /\ nops = 0
    /\ op = NoOp
    /\ fs \in Disks
    /\ CoordIdle
    /\ IdxIdle
    /\ AuxIdle
    /\ DLIdle

\* upsert_assets(batch)
UpsertAssets(batch) ==
    /\ nops < MaxUpserts
    /\ Commit(UpsertLoop(Connect, batch, nops + 1))
    /\ nops' = nops + 1
    /\ op' = [name |-> "upsert_assets", batch |-> batch]
    /\ UNCHANGED <<fs, coordVars, dlVars, idx, auxVars>>

\* Where a download of a row was written: the destination the Coordinator
\* computes, or the same file under the library root of an earlier setting.
WrittenPaths(row) ==
    {IF row.download_path # NULL /\ row.download_path # ""
     THEN row.download_path
     ELSE PathJoin(PathJoin(PathJoin(library_path, row.bundle_title),
                            row.product_title), row.file_name),
     PathJoin("old", row.file_name)}

\* The arguments of set_category, of set_tags / add_tags and of
\* remap_category.
CategoryArgs == {"Comic", "ebook"}
TagLists == {<<>>, <<" PDF ", " ">>, <<"comic">>}
RemapArgs == {<<"ebook", "comic">>, <<"Comic", "EBook">>, <<"Comic", "comic">>,
              <<"comic", "comic">>}

\* set_category(asset_id, category)
set_category(tbl, asset_id, category) ==
    [tbl EXCEPT ![asset_id].category = Lower(category)]

\* clean_tags = [t.strip() for t in tags if t.strip()]
clean_tags(tags) ==
    LET stripped == [k \in DOMAIN tags |-> Strip(tags[k])]
    IN SelectSeq(stripped, LAMBDA t : t # "")

\* INSERT OR IGNORE of each tag of a list, as given.
RECURSIVE InsertCleanTags(_, _, _)
InsertCleanTags(c, asset_id, tags) ==
    IF tags = <<>> THEN c
    ELSE InsertCleanTags(InsertTag(c, asset_id, Head(tags)), asset_id, Tail(tags))

\* set_tags(asset_id, tags): the asset's tags are deleted, the cleaned ones
\* inserted.
set_tags(c, asset_id, tags) ==
    InsertCleanTags([c EXCEPT !.asset_tags = {t \in @ : t.asset_id # asset_id}],
                    asset_id, clean_tags(tags))

\* add_tags(asset_id, tags)
add_tags(c, asset_id, tags) == InsertCleanTags(c, asset_id, clean_tags(tags))

\* remap_category: "UPDATE asset_tags SET tag=new WHERE LOWER(tag)=old"
\* violates UNIQUE(asset_id, tag) when an asset would hold the new tag twice.
RemapRaises(tags, old, new) ==
    \E t \in tags : /\ Lower(t.tag) = old
                    /\ \E u \in tags : /\ u.asset_id = t.asset_id /\ u.rowid # t.rowid
                                       /\ (u.tag = new \/ Lower(u.tag) = old)

\* remap_category(old, new): nothing for an empty or unchanged name; else both
\* UPDATEs, rolled back when the second raises.
remap_category(c, old, new) ==
    IF old = "" \/ new = "" \/ old = new THEN c
    ELSE LET o == Lower(old)
             n == Lower(new)
         IN IF RemapRaises(c.asset_tags, o, n) THEN c
            ELSE [c EXCEPT
                    !.assets = [i \in DOMAIN @ |->
                                  IF @[i].category # NULL /\ Lower(@[i].category) = o
                                  THEN [@[i] EXCEPT !.category = n] ELSE @[i]],
                    !.asset_tags = {IF Lower(t.tag) = o THEN [t EXCEPT !.tag = n] ELSE t
                                    : t \in @}]

\* What every store operation but upsert_assets leaves alone.
StoreOp(name) ==
    /\ nops' = nops + 1
    /\ op' = [name |-> name, batch |-> <<>>]
    /\ UNCHANGED <<assets_fts, sqlite_sequence, fs, coordVars, dlVars, idx, auxVars>>

\* mark_downloaded(url, download_path) for a stored row
MarkDownloaded(i, path) ==
    /\ nops < MaxUpserts
    /\ i \in DOMAIN assets
    /\ path \in WrittenPaths(assets[i])
    /\ assets' = mark_downloaded(assets, assets[i].url, path)
    /\ asset_tags' = asset_tags
    /\ StoreOp("mark_downloaded")

\* mark_download_error(url, error) for a stored row
MarkDownloadError(i) ==
    /\ nops < MaxUpserts
    /\ i \in DOMAIN assets
    /\ assets' = mark_download_error(assets, assets[i].url, "HTTP 404")
    /\ asset_tags' = asset_tags
    /\ StoreOp("mark_download_error")

\* reconcile_downloaded(library_path); the record of the operation keeps the
\* count returned, the rows whose download_path it replaced and the name of
\* the operation before it.
ReconcileDownloaded ==
    /\ nops < MaxUpserts
    /\ nops' = nops + 1
    /\ assets' = reconcile_downloaded(assets, fs, library_path)
    /\ op' = [name |-> "reconcile_downloaded", batch |-> <<>>,
              found |-> reconcile_count(assets, fs, library_path),
              repathed |-> {i \in DOMAIN assets :
                              assets'[i].download_path # assets[i].download_path},
              after |-> op.name]
    /\ UNCHANGED <<asset_tags, assets_fts, sqlite_sequence, fs, coordVars, dlVars, idx, auxVars>>

\* set_category(asset_id, category)
SetCategory(i, category) ==
    /\ nops < MaxUpserts
    /\ i \in DOMAIN assets
    /\ assets' = set_category(assets, i, category)
    /\ asset_tags' = asset_tags
    /\ StoreOp("set_category")

\* set_tags(asset_id, tags)
SetTags(i, tags) ==
    /\ nops < MaxUpserts
    /\ i \in DOMAIN assets
    /\ asset_tags' = set_tags(Connect, i, tags).asset_tags
    /\ assets' = assets
    /\ StoreOp("set_tags")

\* add_tags(asset_id, tags)
AddTags(i, tags) ==
    /\ nops < MaxUpserts
    /\ i \in DOMAIN assets
    /\ asset_tags' = add_tags(Connect, i, tags).asset_tags
    /\ assets' = assets
    /\ StoreOp("add_tags")

\* remap_category(old, new)
RemapCategory(old, new) ==
    /\ nops < MaxUpserts
    /\ LET c == remap_category(Connect, old, new) IN
       /\ assets' = c.assets
       /\ asset_tags' = c.asset_tags
    /\ StoreOp("remap_category")

\* _fts_query(query): the terms joined by " AND ".
_fts_query(query) ==
    CASE query = "f1 b1" -> "f1 AND b1"
      [] OTHER -> query

\* The statement of search_assets with a query joins "assets_fts f" and
\* filters with "f MATCH ?": sqlite resolves f as a column and fails with
\* OperationalError "no such column: f" whatever the expression is.
MatchFails(fts_expr) == TRUE

QueryArgs == {"", "pdf", "f1 b1"}
CategoryFilters == {"", "Comic", "ebook"}
LimitArgs == {1, 50}

\* search_assets(query=, category=, sort="recent", limit=, offset=0): the ids
\* of the items returned and the total, or the exception raised.
search_assets(tbl, tags, query, category, limit) ==
    IF query # "" /\ MatchFails(_fts_query(query))
    THEN [raised |-> TRUE, items |-> <<>>, total |-> 0]
    ELSE LET cat == Lower(category)
             ids == {i \in DOMAIN tbl :
                       \/ category = ""
                       \/ tbl[i].category = cat
                       \/ \E t \in tags : t.asset_id = i /\ t.tag = cat}
             rows == OrderByAddedDesc(tbl, ids)
         IN [raised |-> FALSE,
             items |-> [j \in 1..(IF Len(rows) < limit THEN Len(rows) ELSE limit) |-> rows[j].id],
             total |-> Cardinality(ids)]

\* GET /api/assets: search_assets reads the store.
SearchAssets(query, category, limit) ==
    /\ nops < MaxUpserts
    /\ nops' = nops + 1
    /\ op' = [name |-> "search_assets", batch |-> <<>>, query |-> query,
              category |-> category, limit |-> limit,
              result |-> search_assets(assets, asset_tags, query, category, limit)]
    /\ UNCHANGED <<assets, asset_tags, assets_fts, sqlite_sequence, fs, coordVars, dlVars, idx, auxVars>>

NextDB ==
    \/ \E batch \in Batches : UpsertAssets(batch)
    \/ \E i \in DOMAIN assets : \E path \in WrittenPaths(assets[i]) : MarkDownloaded(i, path)
    \/ \E i \in DOMAIN assets : MarkDownloadError(i)
    \/ ReconcileDownloaded
    \/ \E i \in DOMAIN assets, category \in CategoryArgs : SetCategory(i, category)
    \/ \E i \in DOMAIN assets, tags \in TagLists : SetTags(i, tags)
    \/ \E i \in DOMAIN assets, tags \in TagLists : AddTags(i, tags)
    \/ \E r \in RemapArgs : RemapCategory(r[1], r[2])
    \/ \E query \in QueryArgs, category \in CategoryFilters, limit \in LimitArgs :
          SearchAssets(query, category, limit)

SpecDB == InitDB /\ [][NextDB]_vars

\* The row stored under a url, and the tag set attached to it.
RowsByUrl(url) == {i \in DOMAIN assets : assets[i].url = url}
TagsOfUrl(url) == {t.tag : t \in {x \in asset_tags : x.asset_id \in RowsByUrl(url)}}
StoredByUrl(url) == {assets[i] : i \in RowsByUrl(url)}

\* A batch that upserts payload p and nothing else under p's url.
UpsertsOnly(batch, p) ==
    /\ \E k \in 1..Len(batch) : batch[k] = p
    /\ \A k \in 1..Len(batch) : batch[k].url = p.url => batch[k] = p

(* C10: upserting the same payload (non-empty url) again leaves exactly one
   row with that url, and the row's stored fields and tag set are those the
   previous upsert of that payload left. *)
C10_UpsertIdempotent ==
    [][\A p \in Payloads :
          (/\ p.url # "" /\ p.url # NULL
           /\ op.name = "upsert_assets" /\ UpsertsOnly(op.batch, p)
           /\ op'.name = "upsert_assets" /\ UpsertsOnly(op'.batch, p)
           /\ nops' = nops + 1)
          => /\ Cardinality(RowsByUrl(p.url)') = 1
             /\ StoredByUrl(p.url)' = StoredByUrl(p.url)
             /\ TagsOfUrl(p.url)' = TagsOfUrl(p.url)]_vars


\* An upsert_assets step whose batch upserts payload p, and nothing else
\* under p's url, onto a row already stored under that url.
ReUpserts(p) ==
    /\ op'.name = "upsert_assets" /\ nops' = nops + 1
    /\ UpsertsOnly(op'.batch, p)
    /\ p.url # "" /\ p.url # NULL
    /\ RowsByUrl(p.url) # {}

(* C11: upserting an already stored url leaves each enriched field (category,
   image_url, description, download_path, download_urls, activation_key,
   download_error) unchanged when the payload's value is null, and equal to
   the payload's value when it is not. *)
C11_MergePrecedence ==
    [][LET EnrichedFields == {"category", "image_url", "description", "download_path",
                              "download_urls", "activation_key", "download_error"}
           StoredForm(f, v) == IF f = "download_urls" THEN JsonDumps(v) ELSE v
       IN \A p \in Payloads :
             ReUpserts(p) =>
                \A i \in RowsByUrl(p.url) : \A f \in EnrichedFields :
                   assets'[i][f] = IF p[f] = NULL THEN assets[i][f]
                                   ELSE StoredForm(f, p[f])]_vars

(* C12: an empty url is no merge identity: after an upsert every url-less
   payload of the batch has a row of its own, and no url-less row stored
   before has been overwritten by another asset. *)
C12_EmptyUrlNotIdentity ==
    [][(op'.name = "upsert_assets" /\ nops' = nops + 1) =>
          /\ \A k \in DOMAIN op'.batch :
                op'.batch[k].url = "" =>
                   \E i \in DOMAIN assets' :
                      /\ assets'[i].url = ""
                      /\ assets'[i].file_name = op'.batch[k].file_name
          /\ \A i \in DOMAIN assets :
                assets[i].url = "" =>
                   /\ i \in DOMAIN assets'
                   /\ assets'[i].file_name = assets[i].file_name]_vars

(* C15: upserting an already stored url leaves the row's downloaded flag,
   download_path and download_error as they were. *)
C15_ReindexKeepsBookkeeping ==
    [][\A p \in Payloads :
          ReUpserts(p) =>
             \A i \in RowsByUrl(p.url) :
                /\ assets'[i].downloaded = assets[i].downloaded
                /\ assets'[i].download_path = assets[i].download_path
                /\ assets'[i].download_error = assets[i].download_error]_vars

\* The tag set of the asset with a given id.
TagsOf(i) == {t.tag : t \in {x \in asset_tags : x.asset_id = i}}

(* C16: every asset with a non-empty category has that category among its
   tags, after any sequence of store operations.  Stated for the categories
   that are stored in lowercase, so that a failure is none of C17's. *)
C16_CategoryAmongTags ==
    \A i \in DOMAIN assets :
        (/\ assets[i].category # NULL /\ assets[i].category # ""
         /\ Lower(assets[i].category) = assets[i].category) =>
            assets[i].category \in TagsOf(i)

(* C17: every stored non-null category is lowercase, after any sequence of
   store operations and whatever the letter case of the values passed in. *)
C17_CategoryLowercase ==
    \A i \in DOMAIN assets :
        assets[i].category # NULL => Lower(assets[i].category) = assets[i].category

\* A step of reconcile_downloaded.
Reconciles == op'.name = "reconcile_downloaded" /\ nops' = nops + 1

\* The candidate a row is to be matched at under the library root "lib": the
\* stored download_path, the trove-style path of a trove row, the
\* bundle/product path, the flat file name; the first that is a file of
\* nonzero size, else NULL.
ExpectedMatch(r) ==
    LET present(path) == path \in DOMAIN fs /\ fs[path] > 0
        trove_style == "lib/Humble Trove/" \o r.product_title \o "/" \o r.file_name
        bundle_style == "lib/" \o r.bundle_title \o "/" \o r.product_title
                           \o "/" \o r.file_name
        flat == "lib/" \o r.file_name
    IN CASE r.download_path # NULL /\ present(r.download_path) -> r.download_path
         [] r.trove = 1 /\ present(trove_style) -> trove_style
         [] present(bundle_style) -> bundle_style
         [] present(flat) -> flat
         [] OTHER -> NULL

(* C18: reconcile_downloaded probes each row's candidates in the order
   stored download_path, trove-style path (trove rows only), bundle/product
   path, flat file name; a row with a candidate of nonzero size becomes
   downloaded with download_path the first such candidate, every other row is
   left as it was, and the count returned is the number of rows matched. *)
C18_ReconcileCandidates ==
    [][Reconciles =>
          /\ DOMAIN assets' = DOMAIN assets
          /\ \A i \in DOMAIN assets :
                assets'[i] = IF ExpectedMatch(assets[i]) = NULL THEN assets[i]
                             ELSE [assets[i] EXCEPT
                                     !.downloaded = 1,
                                     !.download_path = ExpectedMatch(assets[i])]
          /\ op'.found = Cardinality({i \in DOMAIN assets :
                                        ExpectedMatch(assets[i]) # NULL})]_vars

\* reconcile_downloaded has matched a trove row, whose stored download_path
\* named no file, at its trove-style path.
C18_Witness ==
    /\ op.name = "reconcile_downloaded"
    /\ \E i \in op.repathed :
          /\ assets[i].trove = 1 /\ assets[i].downloaded = 1
          /\ assets[i].download_path = "lib/Humble Trove/P3/f3.pdf"

(* C19: with an unchanged filesystem a second run of reconcile_downloaded
   returns the count of the first and leaves every row as the first left
   it. *)
C19_ReconcileIdempotent ==
    [][(op.name = "reconcile_downloaded" /\ Reconciles /\ fs' = fs) =>
          /\ assets' = assets
          /\ op'.found = op.found]_vars

\* reconcile_downloaded has run twice in a row and matched a row.
C19_Witness ==
    /\ op.name = "reconcile_downloaded"
    /\ op.after = "reconcile_downloaded"
    /\ op.found > 0

(* C36: after reconcile_downloaded every row with downloaded = 1 has a
   candidate path that is a file of nonzero size: a row that was marked
   downloaded and whose file is not on the disk any more is not reported as
   downloaded. *)
C36_ReconcileClearsMissing ==
    op.name = "reconcile_downloaded" =>
        \A i \in DOMAIN assets :
            assets[i].downloaded = 1 => ExpectedMatch(assets[i]) # NULL

\* The tags upsert_assets stores for a payload: lowercase, stripped, the empty
\* ones left out.
PayloadTags(p) == {Lower(Strip(p.tags[k])) : k \in {j \in DOMAIN p.tags : p.tags[j] # ""}}

(* C37: for a batch of payloads with distinct non-empty urls, new and stored
   ones in any order, upsert_assets attaches each payload's tags and
   full-text entry to the row whose url is the payload's, and no row gains a
   tag of a payload with another url. *)
C37_TagsOnOwnRow ==
    [][(/\ op'.name = "upsert_assets" /\ nops' = nops + 1
        /\ \A k \in DOMAIN op'.batch : op'.batch[k].url # "" /\ op'.batch[k].url # NULL
        /\ \A j, k \in DOMAIN op'.batch :
              op'.batch[j].url = op'.batch[k].url => j = k)
       => /\ \A k \in DOMAIN op'.batch :
                \A i \in DOMAIN assets' :
                   assets'[i].url = op'.batch[k].url =>
                      /\ PayloadTags(op'.batch[k]) \subseteq TagsOf(i)'
                      /\ i \in DOMAIN assets_fts'
                      /\ assets_fts'[i] =
                            [file_name |-> op'.batch[k].file_name,
                             product_title |-> op'.batch[k].product_title,
                             bundle_title |-> op'.batch[k].bundle_title]
          /\ \A i \in DOMAIN assets' :
                TagsOf(i)' \subseteq
                   (TagsOf(i) \cup
                    UNION {PayloadTags(op'.batch[k]) :
                             k \in {j \in DOMAIN op'.batch :
                                      op'.batch[j].url = assets'[i].url}})]_vars

(* C31: search_assets with a query and a category returns only rows that
   match every term of the query in file name, product title or bundle title
   and whose category is the lowercase filter or whose tags hold it, and its
   total counts exactly those rows, whatever the limit is. *)
C31_SearchQueryAndCategory ==
    (op.name = "search_assets" /\ op.query # "" /\ op.category # "") =>
        LET terms == CASE op.query = "f1 b1" -> {"f1", "b1"} [] OTHER -> {op.query}
            words(i) == CASE assets[i].file_name = "f1.pdf" -> {"f1", "pdf"}
                          [] assets[i].file_name = "f2.pdf" -> {"f2", "pdf"}
                          [] assets[i].file_name = "f3.pdf" -> {"f3", "pdf"}
                          [] OTHER -> {Lower(assets[i].file_name)}
            text(i) == words(i) \cup {Lower(assets[i].product_title),
                                      Lower(assets[i].bundle_title)}
            cat == Lower(op.category)
            matching == {i \in DOMAIN assets :
                           /\ terms \subseteq text(i)
                           /\ \/ assets[i].category = cat
                              \/ \E t \in asset_tags : t.asset_id = i /\ t.tag = cat}
        IN /\ ~op.result.raised
           /\ Range(op.result.items) \subseteq matching
           /\ op.result.total = Cardinality(matching)

(***************************************************************************)
(* SpecCoord: the Coordinator.  Requests (start_sync, start_download, the  *)
(* status query, a cancellation) are handled by the web framework's        *)
(* request threads; every accepted start spawns a job thread, whose body   *)
(* runs step by step beside the requests and the other job threads.        *)
(***************************************************************************)
Slots == 1..MaxThreads

\* The catalog the remote account holds, as one sync pass indexes it: two
\* files and a key-only asset, which has no download url.
Catalog(now) == <<IndexedA1(now), IndexedA2(now), IndexedKey("K1", now)>>

\* The store after a first sync and the backfill of the download urls
\* (_backfill_download_urls / set_download_urls).
InitCoord ==
    LET c == UpsertLoop([assets |-> <<>>, asset_tags |-> {}, assets_fts |-> <<>>,
                         seq |-> 0, last |-> 0], Catalog(1), 1)
    IN /\ assets = [i \in DOMAIN c.assets |->
                      [c.assets[i] EXCEPT !.download_urls =
                          CASE c.assets[i].url = "u1" -> JsonDumps(<<"u1">>)
                            [] c.assets[i].url = "u2" -> JsonDumps(<<"u2?sig">>)
                            [] OTHER -> @]]
       /\ asset_tags = c.asset_tags
       /\ assets_fts = c.assets_fts
       /\ sqlite_sequence = c.seq
       /\ nops = 0
       /\ op = NoOp
       /\ fs = <<>>
       /\ CoordIdle
       /\ IdxIdle
       /\ AuxIdle
       /\ DLIdle

SetThread(t, rec) == threads' = [threads EXCEPT ![t] = rec]
Goto(t, pc) == threads' = [threads EXCEPT ![t].pc = pc]
Live(kind) == {t \in Slots : threads[t].kind = kind}

\* The slot a new thread takes: the lowest free one.
FreeSlot(t) == /\ threads[t].kind = "none"
               /\ \A u \in Slots : threads[u].kind = "none" => t <= u

\* "if event: self.events.publish(event)": the event bus is handed the
\* terminal event of a job.
publish(b, event) ==
    IF event # "" THEN [b EXCEPT !.published = Append(@, event)] ELSE b

\* The guard of start_sync.
StartSyncGuard == ~syncing

\* start_sync (POST /api/sync): rejected while syncing, else the stop flag is
\* cleared and a thread running sync_assets is started.
StartSync(t) ==
    /\ StartSyncGuard
    /\ FreeSlot(t)
    /\ njobs < MaxJobs
    /\ njobs' = njobs + 1
    /\ stop_event' = FALSE
    /\ SetThread(t, [IdleThread EXCEPT !.kind = "sync", !.pc = "sync_guard"])
    /\ UNCHANGED <<dbVars, fs, syncing, downloading, download_total, download_done,
                   download_failures, download_skipped, interrupted, dlVars, idx, auxVars>>

\* sync_assets: "if self.syncing: return"
SyncGuard(t) ==
    /\ threads[t].kind = "sync" /\ threads[t].pc = "sync_guard"
    /\ IF syncing THEN SetThread(t, IdleThread) ELSE Goto(t, "sync_set")
    /\ UNCHANGED <<dbVars, fs, syncing, downloading, stop_event, download_total,
                   download_done, download_failures, download_skipped, interrupted, njobs, dlVars, idx, auxVars>>

\* sync_assets: "self.syncing = True"
SyncSet(t) ==
    /\ threads[t].kind = "sync" /\ threads[t].pc = "sync_set"
    /\ syncing' = TRUE
    /\ Goto(t, "sync_run")
    /\ UNCHANGED <<dbVars, fs, downloading, stop_event, download_total,
                   download_done, download_failures, download_skipped, interrupted, njobs, dlVars, idx, auxVars>>

\* sync_assets: collect() and upsert_assets() succeed.
SyncRun(t) ==
    /\ threads[t].kind = "sync" /\ threads[t].pc = "sync_run"
    /\ Commit(UpsertLoop(Connect, Catalog(nops + 2), nops + 2))
    /\ nops' = nops + 1
    /\ op' = [name |-> "upsert_assets", batch |-> Catalog(nops + 2)]
    /\ SetThread(t, [threads[t] EXCEPT !.pc = "sync_finally",
                                       !.event = "sync-complete"])
    /\ UNCHANGED <<fs, syncing, downloading, stop_event, download_total,
                   download_done, download_failures, download_skipped, interrupted, njobs, dlVars, idx, auxVars>>

\* sync_assets: the session, the indexing or the upsert raises.
SyncFail(t) ==
    /\ threads[t].kind = "sync" /\ threads[t].pc = "sync_run"
    /\ SetThread(t, [threads[t] EXCEPT !.pc = "sync_finally",
                                       !.event = "sync-failed"])
    /\ UNCHANGED <<dbVars, fs, syncing, downloading, stop_event, download_total,
                   download_done, download_failures, download_skipped, interrupted, njobs, dlVars, idx, auxVars>>

\* sync_assets, finally: "self.syncing = False" whatever the outcome of the
\* try block is.  (SyncingAfter_OnlyOnSuccess is a faulty variant: the flag is
\* reset at the end of the try block only.)
SyncingAfter_OnlyOnSuccess(event) == event # "sync-complete"
SyncingAfter(event) == FALSE

\* sync_assets: finally "self.syncing = False", then the event is published.
SyncFinally(t) ==
    /\ threads[t].kind = "sync" /\ threads[t].pc = "sync_finally"
    /\ syncing' = SyncingAfter(threads[t].event)
    /\ bus' = publish(bus, threads[t].event)
    /\ SetThread(t, IdleThread)
    /\ UNCHANGED <<dbVars, fs, downloading, stop_event, download_total,
                   download_done, download_failures, download_skipped, interrupted, njobs, dlVars, idx, prod, meta>>

\* The guard of the download handler and of start_download.
StartDownloadGuard == ~downloading

\* POST /api/download and start_download: rejected while self.downloading,
\* else the stop flag is cleared and a thread running _download_thread is
\* started.  The thread, not the request, sets self.downloading.
StartDownload(t) ==
    /\ StartDownloadGuard
    /\ FreeSlot(t)
    /\ njobs < MaxJobs
    /\ njobs' = njobs + 1
    /\ stop_event' = FALSE
    /\ SetThread(t, [IdleThread EXCEPT !.kind = "download", !.pc = "dl_begin"])
    /\ UNCHANGED <<dbVars, fs, syncing, downloading, download_total, download_done,
                   download_failures, download_skipped, interrupted, dlVars, idx, auxVars>>

\* _download_thread: "self.downloading = True" and the counters' reset.
DlBegin(t) ==
    /\ threads[t].kind = "download" /\ threads[t].pc = "dl_begin"
    /\ downloading' = TRUE
    /\ download_total' = 0 /\ download_done' = 0
    /\ download_failures' = 0 /\ download_skipped' = 0
    /\ Goto(t, "dl_query")
    /\ UNCHANGED <<dbVars, fs, syncing, stop_event, interrupted, njobs, dlVars, idx, auxVars>>

\* _download_thread: the pending assets are read and counted.
DlQuery(t) ==
    /\ threads[t].kind = "download" /\ threads[t].pc = "dl_query"
    /\ LET pending == get_assets_pending_download(assets, fs, library_path) IN
       /\ download_total' = Len(pending)
       /\ IF pending = <<>>
          THEN SetThread(t, [threads[t] EXCEPT !.pc = "dl_finally",
                                               !.event = "download-complete"])
          ELSE SetThread(t, [threads[t] EXCEPT !.pc = "dl_loop", !.todo = pending])
    /\ UNCHANGED <<dbVars, fs, syncing, downloading, stop_event, download_done,
                   download_failures, download_skipped, interrupted, njobs, dlVars, idx, auxVars>>

\* The asset the loop of _download_direct_from_urls is at, its first url and
\* its destination.
CurAsset(t) == Head(threads[t].todo)
CurUrls(t) == _parse_download_urls(CurAsset(t).download_urls)
LocalPath(asset) ==
    IF asset.download_path # NULL /\ asset.download_path # ""
    THEN asset.download_path
    ELSE PathJoin(PathJoin(PathJoin(library_path, asset.bundle_title),
                           asset.product_title), asset.file_name)

\* _download_direct_from_urls: the head of the loop over the assets.
DlLoop(t) ==
    /\ threads[t].kind = "download" /\ threads[t].pc = "dl_loop"
    /\ IF stop_event \/ threads[t].todo = <<>>
       THEN SetThread(t, [threads[t] EXCEPT !.pc = "dl_finally",
                                            !.event = "download-complete"])
       ELSE IF CurUrls(t) = <<>>
            THEN SetThread(t, [threads[t] EXCEPT !.todo = Tail(@)])
            ELSE Goto(t, "dl_get")
    /\ UNCHANGED <<dbVars, fs, syncing, downloading, stop_event, download_total,
                   download_done, download_failures, download_skipped, interrupted, njobs, dlVars, idx, auxVars>>

\* os.makedirs of the destination directory raises: the exception leaves
\* _download_direct_from_urls and the job publishes download-failed.
DlMakedirsError(t) ==
    /\ threads[t].kind = "download" /\ threads[t].pc = "dl_get"
    /\ SetThread(t, [threads[t] EXCEPT !.pc = "dl_finally",
                                       !.event = "download-failed"])
    /\ UNCHANGED <<dbVars, fs, syncing, downloading, stop_event, download_total,
                   download_done, download_failures, download_skipped, interrupted, njobs, dlVars, idx, auxVars>>

\* session.get raises, answers a non-2xx status, or the destination cannot be
\* opened: the asset is counted as failed and the loop continues.
DlGetFail(t) ==
    /\ threads[t].kind = "download" /\ threads[t].pc = "dl_get"
    /\ download_failures' = download_failures + 1
    /\ SetThread(t, [threads[t] EXCEPT !.pc = "dl_loop", !.todo = Tail(@)])
    /\ UNCHANGED <<dbVars, fs, syncing, downloading, stop_event, download_total,
                   download_done, download_skipped, interrupted, njobs, dlVars, idx, auxVars>>

\* session.get answers 2xx and open(local_path, "wb") creates or truncates
\* the destination.
DlGetOk(t) ==
    /\ threads[t].kind = "download" /\ threads[t].pc = "dl_get"
    /\ LET path == LocalPath(CurAsset(t)) IN
       /\ fs' = [q \in DOMAIN fs \cup {path} |-> IF q = path THEN 0 ELSE fs[q]]
       /\ interrupted' = interrupted \ {path}
    /\ SetThread(t, [threads[t] EXCEPT !.pc = "dl_stream", !.written = 0])
    /\ UNCHANGED <<dbVars, syncing, downloading, stop_event, download_total,
                   download_done, download_failures, download_skipped, njobs, dlVars, idx, auxVars>>

\* What the chunk loop does with the stop flag set: it breaks off.
ChunkLoopBreaks(stop) == stop

\* One chunk of the body arrives: the stop flag is polled, then the chunk is
\* written.
DlChunk(t) ==
    /\ threads[t].kind = "download" /\ threads[t].pc = "dl_stream"
    /\ threads[t].written < FileChunks
    /\ LET path == LocalPath(CurAsset(t)) IN
       IF ChunkLoopBreaks(stop_event)
       THEN /\ Goto(t, "dl_post")
            /\ interrupted' = interrupted \cup {path}
            /\ fs' = fs
       ELSE /\ SetThread(t, [threads[t] EXCEPT !.written = @ + 1])
            /\ fs' = [fs EXCEPT ![path] =
                        IF @ > threads[t].written + 1 THEN @
                        ELSE threads[t].written + 1]
            /\ interrupted' = interrupted
    /\ UNCHANGED <<dbVars, syncing, downloading, stop_event, download_total,
                   download_done, download_failures, download_skipped, njobs, dlVars, idx, auxVars>>

\* The connection breaks while the body is read: the exception is caught,
\* the asset is counted as failed and the loop continues.
DlStreamError(t) ==
    /\ threads[t].kind = "download" /\ threads[t].pc = "dl_stream"
    /\ threads[t].written < FileChunks
    /\ download_failures' = download_failures + 1
    /\ SetThread(t, [threads[t] EXCEPT !.pc = "dl_loop", !.todo = Tail(@)])
    /\ UNCHANGED <<dbVars, fs, syncing, downloading, stop_event, download_total,
                   download_done, download_skipped, interrupted, njobs, dlVars, idx, auxVars>>

\* After the chunk loop (left by a break, or because the body ended after its
\* last chunk): "if self.stop_event.is_set(): break", which ends the job's
\* loop; else the asset is marked downloaded and counted.
DlPost(t) ==
    /\ threads[t].kind = "download"
    /\ \/ threads[t].pc = "dl_post"
       \/ threads[t].pc = "dl_stream" /\ threads[t].written = FileChunks
    /\ IF stop_event
       THEN /\ SetThread(t, [threads[t] EXCEPT !.pc = "dl_finally",
                                               !.event = "download-complete"])
            /\ UNCHANGED <<assets, download_done, dlVars, idx, auxVars>>
       ELSE /\ assets' = mark_downloaded(assets, CurUrls(t)[1], LocalPath(CurAsset(t)))
            /\ download_done' = download_done + 1
            /\ SetThread(t, [threads[t] EXCEPT !.pc = "dl_loop", !.todo = Tail(@)])
    /\ UNCHANGED <<asset_tags, assets_fts, sqlite_sequence, nops, op, fs, syncing,
                   downloading, stop_event, download_total, download_failures,
                   download_skipped, interrupted, njobs, dlVars, idx, auxVars>>

\* _download_thread: finally "self.downloading = False", then the event is
\* published.
DlFinally(t) ==
    /\ threads[t].kind = "download" /\ threads[t].pc = "dl_finally"
    /\ downloading' = FALSE
    /\ bus' = publish(bus, threads[t].event)
    /\ SetThread(t, IdleThread)
    /\ UNCHANGED <<dbVars, fs, syncing, stop_event, download_total, download_done,
                   download_failures, download_skipped, interrupted, njobs, dlVars, idx, prod, meta>>

\* A cancellation: the signal handler or the shutdown hook sets the flag.
Cancel ==
    /\ ~stop_event
    /\ stop_event' = TRUE
    /\ UNCHANGED <<dbVars, fs, syncing, downloading, download_total, download_done,
                   download_failures, download_skipped, threads, njobs, interrupted, dlVars, idx, auxVars>>

\* GET /api/status: reconcile_downloaded(library_path), then the statistics.
Status ==
    /\ assets' = reconcile_downloaded(assets, fs, library_path)
    /\ assets' # assets
    /\ UNCHANGED <<asset_tags, assets_fts, sqlite_sequence, nops, op, fs, coordVars, dlVars, idx, auxVars>>

NextCoord ==
    \/ \E t \in Slots : StartSync(t)
    \/ \E t \in Slots : SyncGuard(t)
    \/ \E t \in Slots : SyncSet(t)
    \/ \E t \in Slots : SyncRun(t)
    \/ \E t \in Slots : SyncFail(t)
    \/ \E t \in Slots : SyncFinally(t)
    \/ \E t \in Slots : StartDownload(t)
    \/ \E t \in Slots : DlBegin(t)
    \/ \E t \in Slots : DlQuery(t)
    \/ \E t \in Slots : DlLoop(t)
    \/ \E t \in Slots : DlMakedirsError(t)
    \/ \E t \in Slots : DlGetFail(t)
    \/ \E t \in Slots : DlGetOk(t)
    \/ \E t \in Slots : DlChunk(t)
    \/ \E t \in Slots : DlStreamError(t)
    \/ \E t \in Slots : DlPost(t)
    \/ \E t \in Slots : DlFinally(t)
    \/ Cancel
    \/ Status

SpecCoord == InitCoord /\ [][NextCoord]_vars

\* The steps of the sync thread in slot t.
SyncStep(t) ==
    SyncGuard(t) \/ SyncSet(t) \/ SyncFail(t) \/ SyncRun(t) \/ SyncFinally(t)

\* The sync jobs of the Coordinator, with threads that are scheduled: a started sync
\* thread that can take a step takes it eventually (the requests of the
\* indexer have timeouts, the store calls return).
NextSync ==
    \/ \E t \in Slots : StartSync(t)
    \/ \E t \in Slots : SyncGuard(t)
    \/ \E t \in Slots : SyncSet(t)
    \/ \E t \in Slots : SyncRun(t)
    \/ \E t \in Slots : SyncFail(t)
    \/ \E t \in Slots : SyncFinally(t)
    \/ Cancel

SpecSync ==
    InitCoord /\ [][NextSync]_vars /\ \A t \in Slots : WF_vars(SyncStep(t))

(* C1: at most one download job body runs at any time, and no start_download
   is accepted while another download job is started and unfinished. *)
C1_SingleDownloadJob ==
    /\ Cardinality({t \in Live("download") : threads[t].pc # "dl_begin"}) <= 1
    /\ Cardinality(Live("download")) <= 1

(* C2: at most one sync job is past its guard at any time, and no start_sync
   is accepted while another sync job is started and unfinished. *)
C2_SingleSyncJob ==
    /\ Cardinality({t \in Live("sync") :
                      threads[t].pc \in {"sync_run", "sync_finally"}}) <= 1
    /\ Cardinality(Live("sync")) <= 1

(* C8: a file whose transfer a cancellation broke off is never marked
   downloaded while it is incomplete, neither by the job nor by a later
   reconcile_downloaded. *)
C8_NoPartialMarkedDownloaded ==
    \A i \in DOMAIN assets :
        ~(/\ assets[i].downloaded = 1
          /\ assets[i].download_path \in interrupted
          /\ assets[i].download_path \in DOMAIN fs
          /\ fs[assets[i].download_path] < FileChunks)

(* C24: a failure on one asset of the Coordinator's download job (the request,
   its status, the destination directory or file) never ends the batch: no
   download job ends as failed while assets of its batch are left. *)
C24_ItemFailureKeepsBatch ==
    \A t \in Slots :
        ~(/\ threads[t].kind = "download" /\ threads[t].pc = "dl_finally"
          /\ threads[t].event = "download-failed"
          /\ threads[t].todo # <<>>)


\* A step in which download job t counts its current asset as done.
CountsDone(t) ==
    /\ threads[t].kind = "download" /\ threads[t].todo # <<>>
    /\ download_done' = download_done + 1
    /\ threads'[t].todo = Tail(threads[t].todo)

(* C13: when a download job has written an asset's file and counts it as
   done, the asset's row is downloaded with download_path the written path,
   and the number of downloaded rows grows by one if the row was not
   downloaded before; also when the first download url differs from the
   canonical url. *)
C13_SuccessMarksRow ==
    [][\A t \in Slots :
          CountsDone(t) =>
             LET a == CurAsset(t) IN
             /\ assets'[a.id].downloaded = 1
             /\ assets'[a.id].download_path = LocalPath(a)
             /\ assets[a.id].downloaded = 0 =>
                   stats_downloaded(assets') = stats_downloaded(assets) + 1]_vars

\* A step in which download job t counts its current asset as failed.
CountsFailed(t) ==
    /\ threads[t].kind = "download" /\ threads[t].todo # <<>>
    /\ download_failures' = download_failures + 1
    /\ threads'[t].todo = Tail(threads[t].todo)

(* C14: a failed download of an asset in a download job leaves the failure
   reason in the row's download_error, and a successful one leaves
   download_error null. *)
C14_FailureRecorded ==
    [][\A t \in Slots :
          /\ CountsFailed(t) => assets'[CurAsset(t).id].download_error # NULL
          /\ CountsDone(t) => assets'[CurAsset(t).id].download_error = NULL]_vars

(* C34: every sync job that has set the syncing flag eventually ends with the
   flag false, and its end publishes exactly one terminal event, sync-complete
   or sync-failed, whether indexing and upserting succeeded or raised; at that
   moment start_sync is accepted again.  A sync thread that finds the flag
   set returns at once: it publishes nothing and leaves the flag as it is. *)
C34_SyncEndsIdle ==
    /\ \A t \in Slots :
          (threads[t].kind = "sync" /\ threads[t].pc \in {"sync_run", "sync_finally"})
              ~> (threads[t].kind = "none" /\ ~syncing)
    /\ [][\A t \in Slots :
            /\ (threads[t].pc = "sync_run" /\ threads'[t] # threads[t])
                  => threads'[t].pc = "sync_finally"
            /\ (threads[t].pc = "sync_finally" /\ threads'[t] # threads[t])
                  => /\ threads[t].event \in {"sync-complete", "sync-failed"}
                     /\ threads'[t] = IdleThread
                     /\ ~syncing' /\ StartSyncGuard'
            /\ (threads[t].pc = "sync_guard" /\ syncing /\ threads'[t] # threads[t])
                  => threads'[t] = IdleThread /\ syncing' = syncing]_vars

C34_Witness ==
    /\ ~syncing
    /\ \A t \in Slots : threads[t].kind = "none"
    /\ bus.published = <<"sync-failed", "sync-complete">>

(* C35: once the stop flag is set while a download job runs, the flag stays
   set until that job has seen it and left its loop (no start of a sync or of
   another download clears it before), and the job starts no further asset
   transfer. *)
C35_CancelStaysRequested ==
    [][\A t \in Slots :
         (/\ stop_event
          /\ threads[t].kind = "download"
          /\ threads[t].pc \in {"dl_query", "dl_loop", "dl_get", "dl_stream", "dl_post"})
         => /\ threads'[t].pc = "dl_finally" \/ stop_event'
            /\ ~(threads[t].pc = "dl_loop" /\ threads'[t].pc = "dl_get")]_vars

\* No download job but one has been started: every other job started is a
\* sync thread that is live or has published its terminal event.
SoleDownloadJob ==
    njobs = 1 + Cardinality(Live("sync"))
              + Len(SelectSeq(bus.published,
                              LAMBDA e : e \in {"sync-complete", "sync-failed"}))

(* C40: while a download job runs, done + failures + skipped never exceeds
   total, and when a job that was not cancelled (it has walked all its
   assets) publishes download-complete, done + failures + skipped = total:
   every asset counted in the total, the ones without download URL included,
   is accounted for.  Stated for a download job that is the only one
   started, so that a failure is none of C1's. *)
C40_CountersAddUp ==
    \A t \in Slots :
        (threads[t].kind = "download" /\ threads[t].pc # "dl_begin" /\ SoleDownloadJob) =>
           /\ download_done + download_failures + download_skipped <= download_total
           /\ (/\ threads[t].pc = "dl_finally"
               /\ threads[t].event = "download-complete"
               /\ threads[t].todo = <<>>)
              => download_done + download_failures + download_skipped = download_total

(***************************************************************************)
(* SpecDL: one DownloadLibrary.start() run.  The thread that runs start()  *)
(* walks the targets and hands each to the task runner; with max_workers   *)
(* > 1 the tasks are queued for a ThreadPoolExecutor, else they run inline *)
(* (thread 0).  A cache entry is "" (none), "LM0" / "LM1" (the             *)
(* Last-Modified of an older / of the current remote file), "NOW" (stamped *)
(* locally by _process_download), or "T0" / "T1" (the uploaded_at and md5  *)
(* of an older / of the current trove file).                               *)
(***************************************************************************)
Targets == 1..NumTargets
Pool == 1..MaxWorkers

\* The names of a target: its file name, its folder, its destination, and
\* the name _rename_old_file gives an older file.
url_filename(t) == "f" \o ToString(t) \o ".bin"
product_folder ==
    IF cfg.trove THEN PathJoin(PathJoin(library_path, "Humble Trove"), "P")
    ELSE PathJoin(PathJoin(library_path, "B"), "P")
local_file(t) == PathJoin(product_folder, url_filename(t))
_rename_old_file(disk, t, append_str) ==
    LET old == local_file(t)
        new_name == PathJoin(product_folder,
                             "f" \o ToString(t) \o "_" \o append_str \o ".bin")
    IN IF old \in DOMAIN disk
       THEN [q \in (DOMAIN disk \ {old}) \cup {new_name} |->
                IF q = new_name THEN disk[old] ELSE disk[q]]
       ELSE disk

\* open(path, "wb") and os.remove(path).
OpenWb(disk, path) ==
    [q \in DOMAIN disk \cup {path} |-> IF q = path THEN 0 ELSE disk[q]]
Remove(disk, path) == [q \in DOMAIN disk \ {path} |-> disk[q]]

\* The entries a cache can hold for target 1 when the run starts.
CacheEntries(trove) == IF trove THEN {"", "T0", "T1"} ELSE {"", "LM0", "LM1", "NOW"}

InitDL ==
    /\ assets = <<>> /\ asset_tags = {} /\ assets_fts = <<>>
    /\ sqlite_sequence = 0 /\ nops = 0 /\ op = NoOp
    /\ CoordIdle
    /\ IdxIdle
    /\ AuxIdle
    /\ \E ex \in BOOLEAN, tr \in BOOLEAN, up \in BOOLEAN,
          f0 \in {"absent", "empty", "full"} :
         \E c0 \in CacheEntries(tr) :
            cfg = [executor |-> ex, trove |-> tr, update |-> up,
                   cache0 |-> c0, file0 |-> f0]
    /\ cache_data = [t \in Targets |-> IF t = 1 THEN cfg.cache0 ELSE ""]
    /\ cache_file = cache_data
    /\ fs = IF cfg.file0 = "absent" THEN <<>>
            ELSE (local_file(1) :> (IF cfg.file0 = "empty" THEN 0 ELSE FileChunks))
    /\ _cache_lock = {}
    /\ calls = [t \in Targets |-> <<>>]
    /\ fetched = {}
    /\ task = [t \in Targets |-> "none"]
    /\ queue = <<>>
    /\ workers = [w \in 0..MaxWorkers |-> IdleWorker]
    /\ main = [pc |-> "loop", next |-> 1]
    /\ hist = [short |-> {}, in_stream |-> {}, before_chunk |-> {}, persisted |-> {},
              denied |-> {}, not_modified |-> {}]

\* An outcome callback is invoked for target t.
Report(t, tags) == calls' = [calls EXCEPT ![t] = @ \o tags]

\* The task of thread w ends: the worker is free again; an inline task gives
\* the control back to the loops of start(), or ends the run when it exits.
EndTask(w, how) ==
    /\ workers' = [workers EXCEPT ![w] = IdleWorker]
    /\ task' = [task EXCEPT ![workers[w].tgt] = how]
    /\ main' = IF w # 0 THEN main
               ELSE [main EXCEPT !.pc = IF how = "exited" THEN "exited" ELSE "loop"]

\* _process_product: the cached target whose file is there and not empty.
OrderSkips(t) ==
    /\ cache_data[t] # "" /\ ~cfg.update
    /\ ExistsNonEmpty(fs, local_file(t))

\* _process_trove_product: the target is handed to the task runner unless it
\* is cached and update is off, or its uploaded_at or md5 equal the cached.
TroveWanted(t) ==
    /\ ~(cache_data[t] # "" /\ ~cfg.update)
    /\ cache_data[t] # "T1"

\* start(): the loops end (all targets walked, or the stop flag is set).
MainLeaveLoop ==
    /\ main.pc = "loop"
    /\ stop_event \/ main.next > NumTargets
    /\ main' = [main EXCEPT !.pc = IF cfg.executor THEN "shutdown" ELSE "returned"]
    /\ UNCHANGED <<dbVars, fs, coordVars, cfg, cache_data, cache_file, _cache_lock,
                   calls, fetched, task, queue, workers, hist, idx, auxVars>>

\* _process_product: "Skip cached": the skip callback, no task.
MainSkip ==
    /\ main.pc = "loop" /\ ~stop_event /\ main.next <= NumTargets
    /\ ~cfg.trove /\ OrderSkips(main.next)
    /\ Report(main.next, <<"skip">>)
    /\ main' = [main EXCEPT !.next = @ + 1]
    /\ UNCHANGED <<dbVars, fs, coordVars, cfg, cache_data, cache_file, _cache_lock,
                   fetched, task, queue, workers, hist, idx, auxVars>>

\* _process_trove_product: "continue", or nothing to do for the target.
MainPass ==
    /\ main.pc = "loop" /\ ~stop_event /\ main.next <= NumTargets
    /\ cfg.trove /\ ~TroveWanted(main.next)
    /\ main' = [main EXCEPT !.next = @ + 1]
    /\ UNCHANGED <<dbVars, fs, coordVars, cfg, cache_data, cache_file, _cache_lock,
                   calls, fetched, task, queue, workers, hist, idx, auxVars>>

\* _run_download_task: the target is submitted to the executor, or
\* _safe_download is called inline.
MainSubmit ==
    /\ main.pc = "loop" /\ ~stop_event /\ main.next <= NumTargets
    /\ IF cfg.trove THEN TroveWanted(main.next) ELSE ~OrderSkips(main.next)
    /\ IF cfg.executor
       THEN /\ queue' = Append(queue, main.next)
            /\ task' = [task EXCEPT ![main.next] = "queued"]
            /\ main' = [main EXCEPT !.next = @ + 1]
            /\ UNCHANGED workers
       ELSE /\ workers' = [workers EXCEPT ![0] =
                              [IdleWorker EXCEPT !.pc = "safe", !.tgt = main.next]]
            /\ task' = [task EXCEPT ![main.next] = "running"]
            /\ main' = [main EXCEPT !.pc = "inline", !.next = @ + 1]
            /\ UNCHANGED queue
    /\ UNCHANGED <<dbVars, fs, coordVars, cfg, cache_data, cache_file, _cache_lock,
                   calls, fetched, hist, idx, auxVars>>

\* start(), finally: "cancel_now = bool(stop_event and stop_event.is_set())"
\* and "wait=not cancel_now".  (ShutdownWaits_Always is a faulty variant: a
\* shutdown that always waits for the worker threads.)
ShutdownWaits_Always(stop) == TRUE
ShutdownWaits(stop) == ~stop

\* start(), finally: executor.shutdown(wait=not cancel_now,
\* cancel_futures=True) drains the work queue and cancels what it held.
MainShutdown ==
    /\ main.pc = "shutdown"
    /\ queue' = <<>>
    /\ task' = [t \in Targets |-> IF task[t] = "queued" THEN "cancelled" ELSE task[t]]
    /\ main' = [main EXCEPT !.pc = IF ShutdownWaits(stop_event) THEN "wait" ELSE "returned"]
    /\ UNCHANGED <<dbVars, fs, coordVars, cfg, cache_data, cache_file, _cache_lock,
                   calls, fetched, workers, hist, idx, auxVars>>

\* shutdown(wait=True) returns when the worker threads have ended.
MainWait ==
    /\ main.pc = "wait"
    /\ \A w \in Pool : workers[w].pc = "idle"
    /\ main' = [main EXCEPT !.pc = "returned"]
    /\ UNCHANGED <<dbVars, fs, coordVars, cfg, cache_data, cache_file, _cache_lock,
                   calls, fetched, task, queue, workers, hist, idx, auxVars>>

\* A pool thread takes the next work item and calls _safe_download (of the
\* idle threads, which are alike, the first one).
WorkerTake(w) ==
    /\ w \in Pool /\ workers[w].pc = "idle" /\ queue # <<>>
    /\ \A u \in Pool : workers[u].pc = "idle" => w <= u
    /\ workers' = [workers EXCEPT ![w] =
                      [IdleWorker EXCEPT !.pc = "safe", !.tgt = Head(queue)]]
    /\ queue' = Tail(queue)
    /\ task' = [task EXCEPT ![Head(queue)] = "running"]
    /\ UNCHANGED <<dbVars, fs, coordVars, cfg, cache_data, cache_file, _cache_lock,
                   calls, fetched, main, hist, idx, auxVars>>

\* _safe_download: "if stop_event.is_set(): return", else func is called.
SafeEnter(w) ==
    /\ workers[w].pc = "safe"
    /\ IF stop_event
       THEN EndTask(w, "preempted")
       ELSE /\ workers' = [workers EXCEPT ![w].pc = "check"]
            /\ UNCHANGED <<task, main, idx, auxVars>>
    /\ UNCHANGED <<dbVars, fs, coordVars, cfg, cache_data, cache_file, _cache_lock,
                   calls, fetched, queue, hist, idx, auxVars>>

\* The target a thread works on, and the date _rename_old_file appends for a
\* cache entry (strftime of its url_last_modified / uploaded_at).
Tgt(w) == workers[w].tgt
DateOf(entry) ==
    CASE entry = "LM0" -> "d0" [] entry = "T0" -> "d0"
      [] entry = "LM1" -> "d1" [] entry = "T1" -> "d1"
      [] OTHER -> ""

\* _check_cache_and_download: "if stop_event.is_set(): return False", which
\* _safe_download reports as a failure without result.
CheckStopped(w) ==
    /\ workers[w].pc = "check" /\ ~cfg.trove
    /\ stop_event
    /\ Report(Tgt(w), <<"failure:no_result">>)
    /\ EndTask(w, "done")
    /\ UNCHANGED <<dbVars, fs, coordVars, cfg, cache_data, cache_file, _cache_lock,
                   fetched, queue, hist, idx, auxVars>>

\* _check_cache_and_download: cached, update off and os.path.exists:
\* FileExistsError, which _safe_download reports as a skip.
CacheHit(w) ==
    /\ cache_data[Tgt(w)] # "" /\ ~cfg.update
    /\ local_file(Tgt(w)) \in DOMAIN fs

CheckSkip(w) ==
    /\ workers[w].pc = "check" /\ ~cfg.trove
    /\ ~stop_event /\ CacheHit(w)
    /\ Report(Tgt(w), <<"skip">>)
    /\ EndTask(w, "done")
    /\ UNCHANGED <<dbVars, fs, coordVars, cfg, cache_data, cache_file, _cache_lock,
                   fetched, queue, hist, idx, auxVars>>

\* _check_cache_and_download reaches session.get(remote_file).
FetchGuard(w) ==
    /\ workers[w].pc = "check" /\ ~cfg.trove
    /\ ~stop_event /\ ~CacheHit(w)

\* session.get raises: failure_callback "request_failed", return False, and
\* _safe_download's failure_callback "no_result".
GetFails(w) ==
    /\ FetchGuard(w)
    /\ fetched' = fetched \cup {Tgt(w)}
    /\ Report(Tgt(w), <<"failure:request_failed", "failure:no_result">>)
    /\ EndTask(w, "done")
    /\ UNCHANGED <<dbVars, fs, coordVars, cfg, cache_data, cache_file, _cache_lock,
                   queue, hist, idx, auxVars>>

\* The answer's status is not 200: failure_callback "status_N", return False,
\* and _safe_download's failure_callback "no_result".
GetStatus(w) ==
    /\ FetchGuard(w)
    /\ fetched' = fetched \cup {Tgt(w)}
    /\ Report(Tgt(w), <<"failure:status_404", "failure:no_result">>)
    /\ EndTask(w, "done")
    /\ UNCHANGED <<dbVars, fs, coordVars, cfg, cache_data, cache_file, _cache_lock,
                   queue, hist, idx, auxVars>>

\* Status 200 and a Last-Modified equal to the cached one: return False.
GetNotModified(w) ==
    /\ FetchGuard(w)
    /\ cache_data[Tgt(w)] = "LM1"
    /\ fetched' = fetched \cup {Tgt(w)}
    /\ Report(Tgt(w), <<"failure:no_result">>)
    /\ hist' = [hist EXCEPT !.not_modified = @ \cup {Tgt(w)}]
    /\ EndTask(w, "done")
    /\ UNCHANGED <<dbVars, fs, coordVars, cfg, cache_data, cache_file, _cache_lock,
                   queue, idx, auxVars>>

\* Status 200, and the cached url_last_modified is one _process_download
\* stamped ("%Z" of a naive datetime is empty): strptime raises ValueError;
\* or os.makedirs raises OSError.  _safe_download reports "exception".
GetRaises(w) ==
    /\ FetchGuard(w)
    /\ fetched' = fetched \cup {Tgt(w)}
    /\ Report(Tgt(w), <<"failure:exception">>)
    /\ EndTask(w, "done")
    /\ UNCHANGED <<dbVars, fs, coordVars, cfg, cache_data, cache_file, _cache_lock,
                   queue, hist, idx, auxVars>>

\* _process_download up to the body: an older file is renamed when
\* rename_str is set, and _download_file opens the destination.  The answer
\* declares a Content-Length or not, and its body holds avail chunks.
OpenStream(w, info, rename_str) ==
    /\ fs' = OpenWb(IF rename_str # "" THEN _rename_old_file(fs, Tgt(w), rename_str)
                    ELSE fs,
                    local_file(Tgt(w)))
    /\ \E declared \in BOOLEAN, avail \in {FileChunks - 1, FileChunks} :
          workers' = [workers EXCEPT ![w] =
                         [pc |-> "stream", tgt |-> Tgt(w), written |-> 0,
                          avail |-> avail, declared |-> declared, info |-> info]]

\* Status 200 with a new Last-Modified (lm = "LM1") or none (lm = ""): the
\* transfer starts.  Without the header the entry is stamped with now().
GetOpens(w) ==
    /\ FetchGuard(w)
    /\ cache_data[Tgt(w)] # "NOW"
    /\ fetched' = fetched \cup {Tgt(w)}
    /\ \E lm \in {"", "LM1"} :
          /\ ~(lm # "" /\ lm = cache_data[Tgt(w)])
          /\ OpenStream(w, IF lm # "" THEN lm ELSE "NOW", DateOf(cache_data[Tgt(w)]))
    /\ UNCHANGED <<dbVars, coordVars, cfg, cache_data, cache_file, _cache_lock,
                   calls, task, queue, main, hist, idx, auxVars>>

\* _download_trove_asset: the signing request or the file request raises:
\* "return", which _safe_download reports as a failure without result.
TroveFails(w) ==
    /\ workers[w].pc = "check" /\ cfg.trove
    /\ \E got_signed \in BOOLEAN :
          fetched' = IF got_signed THEN fetched \cup {Tgt(w)} ELSE fetched
    /\ Report(Tgt(w), <<"failure:no_result">>)
    /\ EndTask(w, "done")
    /\ UNCHANGED <<dbVars, fs, coordVars, cfg, cache_data, cache_file, _cache_lock,
                   queue, hist, idx, auxVars>>

\* _get_trove_download_url: the account is not authorized: sys.exit().
TroveUnauthorized(w) ==
    /\ workers[w].pc = "check" /\ cfg.trove
    /\ EndTask(w, "exited")
    /\ hist' = [hist EXCEPT !.denied = @ \cup {Tgt(w)}]
    /\ UNCHANGED <<dbVars, fs, coordVars, cfg, cache_data, cache_file, _cache_lock,
                   calls, fetched, queue, idx, auxVars>>

\* _download_trove_asset: the signed url is requested and the transfer
\* starts (no status check); file_info is the upload's uploaded_at and md5.
TroveOpens(w) ==
    /\ workers[w].pc = "check" /\ cfg.trove
    /\ fetched' = fetched \cup {Tgt(w)}
    /\ OpenStream(w, "T1", DateOf(cache_data[Tgt(w)]))
    /\ UNCHANGED <<dbVars, coordVars, cfg, cache_data, cache_file, _cache_lock,
                   calls, task, queue, main, hist, idx, auxVars>>

\* _download_file: the poll of the stop flag before a chunk is written, and
\* the comparison of the bytes written with the declared length.
\* (PollStop_Never and SizeMismatch_Never are faulty variants: a loop that
\* never looks at the flag, a transfer that never compares the lengths.)
PollStop_Never(stop) == FALSE
PollStop(stop) == stop
SizeMismatch_Never(dl, total_length) == FALSE
SizeMismatch(dl, total_length) == dl < total_length

\* _download_file: one chunk arrives.  Stop flag set: KeyboardInterrupt, the
\* file is removed, sys.exit() (SystemExit ends the task, or the run when
\* the task runs inline).  Else the chunk is written.
Chunk(w) ==
    /\ workers[w].pc = "stream" /\ workers[w].written < workers[w].avail
    /\ IF PollStop(stop_event)
       THEN /\ fs' = Remove(fs, local_file(Tgt(w)))
            /\ EndTask(w, "exited")
       ELSE /\ fs' = [fs EXCEPT ![local_file(Tgt(w))] = @ + 1]
            /\ workers' = [workers EXCEPT ![w].written = @ + 1]
            /\ UNCHANGED <<task, main, idx, auxVars>>
    /\ UNCHANGED <<dbVars, coordVars, cfg, cache_data, cache_file, _cache_lock,
                   calls, fetched, queue, hist, idx, auxVars>>

\* iter_content raises (the connection breaks): the file is removed,
\* _process_download returns False: failure without result.
StreamError(w) ==
    /\ workers[w].pc = "stream" /\ workers[w].written < workers[w].avail
    /\ fs' = Remove(fs, local_file(Tgt(w)))
    /\ Report(Tgt(w), <<"failure:no_result">>)
    /\ EndTask(w, "done")
    /\ UNCHANGED <<dbVars, coordVars, cfg, cache_data, cache_file, _cache_lock,
                   fetched, queue, hist, idx, auxVars>>

\* The body ends.  With a declared length and too few bytes: ValueError, the
\* file is removed, failure without result.  Else _process_download goes on
\* to _update_cache_data.
StreamEnd(w) ==
    /\ workers[w].pc = "stream" /\ workers[w].written = workers[w].avail
    /\ hist' = IF workers[w].declared /\ workers[w].avail < FileChunks
               THEN [hist EXCEPT !.short = @ \cup {Tgt(w)}] ELSE hist
    /\ IF workers[w].declared /\ SizeMismatch(workers[w].written, FileChunks)
       THEN /\ fs' = Remove(fs, local_file(Tgt(w)))
            /\ Report(Tgt(w), <<"failure:no_result">>)
            /\ EndTask(w, "done")
       ELSE /\ workers' = [workers EXCEPT ![w].pc = "lock"]
            /\ UNCHANGED <<fs, calls, task, main, idx, auxVars>>
    /\ UNCHANGED <<dbVars, coordVars, cfg, cache_data, cache_file, _cache_lock,
                   fetched, queue, idx, auxVars>>

\* _update_cache_data: "with self._cache_lock" lets a thread in when no
\* thread holds the lock.  (LockFree_Always is a faulty variant: no lock.)
LockFree_Always(holders) == TRUE
LockFree(holders) == holders = {}

\* _update_cache_data: the lock is taken and the entry is put in the map.
CacheAcquire(w) ==
    /\ workers[w].pc = "lock"
    /\ LockFree(_cache_lock)
    /\ _cache_lock' = _cache_lock \cup {w}
    /\ cache_data' = [cache_data EXCEPT ![Tgt(w)] = workers[w].info]
    /\ workers' = [workers EXCEPT ![w].pc = "mutated"]
    /\ UNCHANGED <<dbVars, fs, coordVars, cfg, cache_file, calls, fetched, task,
                   queue, main, hist, idx, auxVars>>

\* _update_cache_data: open(self.cache_file, "w") truncates the file.
CacheOpen(w) ==
    /\ workers[w].pc = "mutated"
    /\ cache_file' = [t \in Targets |-> ""]
    /\ workers' = [workers EXCEPT ![w].pc = "opened"]
    /\ UNCHANGED <<dbVars, fs, coordVars, cfg, cache_data, _cache_lock, calls,
                   fetched, task, queue, main, hist, idx, auxVars>>

\* _update_cache_data: json.dump of the map, the file is closed and the lock
\* released; the call returns.
CacheDump(w) ==
    /\ workers[w].pc = "opened"
    /\ cache_file' = cache_data
    /\ _cache_lock' = _cache_lock \ {w}
    /\ hist' = [hist EXCEPT !.persisted = @ \cup {Tgt(w)}]
    /\ workers' = [workers EXCEPT ![w].pc = "callback"]
    /\ UNCHANGED <<dbVars, fs, coordVars, cfg, cache_data, calls, fetched, task,
                   queue, main, idx, auxVars>>

\* _process_download: download_callback, return True.  _download_trove_asset
\* drops the result, so _safe_download reports a trove target as a failure
\* without result as well.
Finish(w) ==
    /\ workers[w].pc = "callback"
    /\ Report(Tgt(w), IF cfg.trove THEN <<"success", "failure:no_result">>
                      ELSE <<"success">>)
    /\ EndTask(w, "done")
    /\ UNCHANGED <<dbVars, fs, coordVars, cfg, cache_data, cache_file, _cache_lock,
                   fetched, queue, hist, idx, auxVars>>

\* The owner of the stop flag sets it while the run is under way.
CancelDL ==
    /\ ~stop_event
    /\ main.pc \notin {"returned", "exited"} \/ \E w \in Pool : workers[w].pc # "idle"
    /\ stop_event' = TRUE
    /\ LET streaming == {w \in 0..MaxWorkers : workers[w].pc = "stream"} IN
       hist' = [hist EXCEPT
                  !.in_stream = @ \cup {Tgt(w) : w \in streaming},
                  !.before_chunk = @ \cup
                      {Tgt(w) : w \in {x \in streaming :
                                         workers[x].written < workers[x].avail}}]
    /\ UNCHANGED <<dbVars, fs, coordRest, cfg, cache_data, cache_file, _cache_lock,
                   calls, fetched, task, queue, workers, main, idx, auxVars>>

NextDL ==
    \/ MainLeaveLoop
    \/ MainSkip
    \/ MainPass
    \/ MainSubmit
    \/ MainShutdown
    \/ MainWait
    \/ CancelDL
    \/ \E w \in Pool : WorkerTake(w)
    \/ \E w \in 0..MaxWorkers :
          \/ SafeEnter(w)
          \/ CheckStopped(w)
          \/ CheckSkip(w)
          \/ GetFails(w)
          \/ GetStatus(w)
          \/ GetNotModified(w)
          \/ GetRaises(w)
          \/ GetOpens(w)
          \/ TroveFails(w)
          \/ TroveUnauthorized(w)
          \/ TroveOpens(w)
          \/ Chunk(w)
          \/ StreamError(w)
          \/ StreamEnd(w)
          \/ CacheAcquire(w)
          \/ CacheOpen(w)
          \/ CacheDump(w)
          \/ Finish(w)

SpecDL == InitDL /\ [][NextDL]_vars

\* What the run found for a target when it started (_load_cache_data, and
\* the library directory).
Cache0(t) == IF t = 1 THEN cfg.cache0 ELSE ""
File0(t) == IF t = 1 THEN cfg.file0 ELSE "absent"

\* The callbacks invoked for a target.
HasSuccess(t) == \E i \in 1..Len(calls[t]) : calls[t][i] = "success"
HasFailure(t) ==
    \E i \in 1..Len(calls[t]) :
       calls[t][i] \in {"failure:no_result", "failure:exception",
                        "failure:request_failed", "failure:status_404"}

(* C3: every target handed to the task runner whose task has ended, in a run
   without cancellation, has had exactly one outcome callback, once. *)
C3_ExactlyOneCallback ==
    \A t \in Targets :
       (task[t] \in {"done", "exited"} /\ ~stop_event) => Len(calls[t]) = 1

(* C4: when start() has returned and the stop flag was never set, every
   target submitted to the task runner has been executed and has an
   outcome. *)
C4_AllSubmittedReachOutcome ==
    (main.pc = "returned" /\ ~stop_event)
       => \A t \in Targets :
             task[t] # "none" => (task[t] = "done" /\ calls[t] # <<>>)

(* C5: for an order target with update off and no cancellation, the target
   is skipped (and not fetched) exactly when its cache entry is present and
   its file is present with nonzero size; in the three other combinations,
   the empty file included, the remote file is requested. *)
C5_SkipCacheMatrix ==
    \A t \in Targets :
       (/\ ~cfg.trove /\ ~cfg.update /\ ~stop_event
        /\ calls[t] # <<>> \/ task[t] = "done")
       => IF Cache0(t) # "" /\ File0(t) = "full"
          THEN calls[t] = <<"skip">> /\ t \notin fetched
          ELSE t \in fetched

(* C6: a target whose answer declared a Content-Length and whose body ended
   short is reported as a failure and never as a success, its destination
   file does not exist, and the cache entry of its key is the one the run
   started with. *)
C6_ShortStreamFails ==
    \A t \in hist.short :
       /\ HasFailure(t) /\ ~HasSuccess(t)
       /\ local_file(t) \notin DOMAIN fs
       /\ cache_data[t] = Cache0(t)

\* A short body was detected for target 1, which had a cache entry.
C6_Witness ==
    /\ 1 \in hist.short /\ cfg.cache0 # ""
    /\ task[1] = "done" /\ calls[1] = <<"failure:no_result">>

(* C7 as stated: a target whose body was being streamed when the stop flag
   became set is never reported successful, gets no cache entry, and its
   file is removed. *)
C7_StopWhileStreaming ==
    \A t \in hist.in_stream :
       /\ ~HasSuccess(t)
       /\ cache_data[t] = Cache0(t)
       /\ task[t] # "running" => local_file(t) \notin DOMAIN fs

(* C7 amended: a target whose body was being streamed, with a chunk still to
   be written, when the stop flag became set is never reported successful,
   gets no cache entry, and its partial file is removed once its task has
   ended. *)
C7_StopBeforeChunk ==
    \A t \in hist.before_chunk :
       /\ ~HasSuccess(t)
       /\ cache_data[t] = Cache0(t)
       /\ task[t] # "running" => local_file(t) \notin DOMAIN fs

\* The poll before a chunk saw the flag: the task ended by sys.exit() without
\* a callback, and the file is gone.
C7_Witness ==
    \E t \in hist.before_chunk :
       /\ task[t] = "exited" /\ calls[t] = <<>>
       /\ local_file(t) \notin DOMAIN fs
       /\ t \in fetched

(* C9: at most one thread is inside the mutate-and-persist section of
   _update_cache_data, and whenever no thread is inside it the cache file
   holds the map, with the entry of every call that has returned. *)
C9_CacheSerialized ==
    /\ Cardinality(_cache_lock) <= 1
    /\ _cache_lock = {} =>
          /\ cache_file = cache_data
          /\ \A t \in hist.persisted : cache_file[t] # ""

\* A thread waits for the lock while another is inside the section.
C9_Witness ==
    \E w1 \in Pool, w2 \in Pool :
       /\ w1 # w2
       /\ workers[w1].pc = "lock"
       /\ w2 \in _cache_lock

\* The kind of failure a reason of the failure callback names: the callback
\* gets "request_failed", "status_<code>", "no_result" or "exception".
ReasonKind(tag) ==
    CASE tag = "failure:request_failed" -> "request error"
      [] tag = "failure:status_404" -> "status"
      [] OTHER -> "unspecified"

(* C32: every failure carries a reason that names its kind: a target that
   failed because its stream ended before the declared length has a failure
   reported with a size-mismatch reason. *)
C32_FailureReasonNamesKind ==
    \A t \in Targets :
        (t \in hist.short /\ task[t] = "done" /\ HasFailure(t)) =>
            \E i \in 1..Len(calls[t]) : ReasonKind(calls[t][i]) = "size mismatch"

(* C33: a cache entry alone is no proof that a trove file exists: a trove
   target with a cache entry and update not forced is handed to the download
   when its destination file is missing or empty, and is passed over only
   when the file exists with nonzero size. *)
C33_TroveCacheNeedsFile ==
    [][(/\ cfg.trove /\ ~cfg.update
        /\ main.pc = "loop" /\ main'.next = main.next + 1
        /\ cache_data[main.next] # "")
       => IF ExistsNonEmpty(fs, local_file(main.next))
          THEN task'[main.next] = "none"
          ELSE task'[main.next] # "none"]_vars

(* C38: with update forced, a target whose remote Last-Modified equals the
   cached url_last_modified is neither rewritten on the disk nor reported
   through the failure callback. *)
C38_UpToDateIsNoFailure ==
    \A t \in hist.not_modified :
        cfg.update =>
           /\ ~HasFailure(t)
           /\ t = 1
           /\ IF cfg.file0 = "absent" THEN local_file(t) \notin DOMAIN fs
              ELSE /\ local_file(t) \in DOMAIN fs
                   /\ fs[local_file(t)] = IF cfg.file0 = "empty" THEN 0 ELSE FileChunks

(* C23: an Unauthorized answer to the signing request of a trove target ends
   the whole run: from then on no target's file is requested and no target
   is reported as success, with the worker pool as without it. *)
C23_UnauthorizedIsFatal ==
    [][hist.denied # {} =>
         /\ fetched' = fetched
         /\ \A t \in Targets : HasSuccess(t)' = HasSuccess(t)]_vars

(* C25: once the stop flag is set during a trove pass, no further product is
   processed and no target is submitted, start() returns from the shutdown
   without waiting for the worker threads, what the queue held is never
   started, and the cache entries of the completed downloads stay in the
   cache map and in the cache file. *)
C25_CancelMidTrovePass ==
    [][(cfg.trove /\ stop_event) =>
         /\ main'.next = main.next
         /\ \A t \in Targets : task[t] = "none" => task'[t] = "none"
         /\ Len(queue') <= Len(queue)
         /\ main.pc = "shutdown" => main'.pc \in {"shutdown", "returned"}
         /\ \A t \in Targets : task[t] = "cancelled" => task'[t] = "cancelled"
         /\ \A t \in hist.persisted :
               /\ cache_data'[t] # ""
               /\ _cache_lock' = {} => cache_file'[t] # ""]_vars

\* C25's case: the flag was set after the first target's download had been
\* completed and cached and while the second waited in the queue; start()
\* has returned, the second target was cancelled.
C25_Witness ==
    /\ cfg.trove /\ cfg.executor /\ stop_event
    /\ main.pc = "returned"
    /\ 1 \in hist.persisted /\ cache_data[1] # "" /\ cache_file[1] # ""
    /\ task[2] = "cancelled" /\ 2 \notin fetched

(***************************************************************************)
(* SpecIdx: one LibraryIndexer.collect() pass in non-trove mode, as        *)
(* sync_assets runs it (no stop_event is handed to the Indexer; the keys   *)
(* are the order ids of the store when there are any).  The                *)
(* account holds three orders: o1 and o3 have subproducts, o2 is a         *)
(* single-product order without subproducts.  An emitted asset is recorded *)
(* as [order_id, bundle_title, product_title].                             *)
(***************************************************************************)
OrderKeys == {"o1", "o2", "o3"}

\* The order tree _fetch_order returns for a key.
RemoteOrder(k) ==
    CASE k = "o1" -> [human_name |-> "B1", subproducts |-> <<"P1", "P1b">>]
      [] k = "o2" -> [human_name |-> "B2", subproducts |-> <<>>]
      [] k = "o3" -> [human_name |-> "B3", subproducts |-> <<"P3">>]

\* The purchase key lists of a pass: up to MaxKeys distinct keys, in any order.
KeyLists ==
    {l \in UNION {[1..n -> OrderKeys] : n \in 0..MaxKeys} :
        \A a, b \in DOMAIN l : a # b => l[a] # l[b]}

\* What distinct_order_ids() returns when sync_assets starts: the order ids
\* of the rows stored by earlier passes.
KnownOrders == {<<>>, <<"o1">>, <<"o2", "o1">>}

\* _collect_bundle_assets(order_id, bundle_title, product): one file per product.
_collect_bundle_assets(order_id, bundle_title, product) ==
    <<[order_id |-> order_id, bundle_title |-> bundle_title, product_title |-> product]>>

RECURSIVE CollectProducts(_, _, _)
CollectProducts(order_id, bundle_title, products) ==
    IF products = <<>> THEN <<>>
    ELSE _collect_bundle_assets(order_id, bundle_title, Head(products))
            \o CollectProducts(order_id, bundle_title, Tail(products))

InitIdx ==
    /\ assets = <<>> /\ asset_tags = {} /\ assets_fts = <<>>
    /\ sqlite_sequence = 0 /\ nops = 0 /\ op = NoOp
    /\ fs = <<>>
    /\ CoordIdle
    /\ DLIdle
    /\ AuxIdle
    /\ \E l \in KeyLists, known \in KnownOrders :
          /\ Range(known) \subseteq Range(l)
          /\ idx = [pc |-> "sync", keys |-> <<>>, pos |-> 1, order_id |-> "", order |-> NULL,
                    bundle_title |-> "", products |-> <<>>, bound |-> FALSE,
                    assets |-> <<>>, fetched_ok |-> {},
                    known_orders |-> known, remote |-> l]

\* sync_assets: "purchase_keys=known_orders or None", and collect():
\* "purchase_keys = self.purchase_keys or self._get_purchase_keys()".
purchase_keys(known_orders, remote) ==
    IF known_orders # <<>> THEN known_orders ELSE remote

\* sync_assets builds the Indexer with the order ids of the store and calls
\* collect(), which settles the keys it walks.
SyncCollect ==
    /\ idx.pc = "sync"
    /\ idx' = [idx EXCEPT !.pc = "loop",
                          !.keys = purchase_keys(idx.known_orders, idx.remote)]
    /\ UNCHANGED <<dbVars, fs, coordVars, dlVars, auxVars>>

\* The loop over the purchase keys: the order of the next key is fetched;
\* bundle_title and products are assigned from it.
CollectFetchOk ==
    /\ idx.pc = "loop" /\ idx.pos <= Len(idx.keys)
    /\ LET k == idx.keys[idx.pos] IN
       idx' = [idx EXCEPT !.pos = @ + 1, !.order_id = k, !.order = k,
                          !.bundle_title = RemoteOrder(k).human_name,
                          !.products = RemoteOrder(k).subproducts,
                          !.bound = TRUE,
                          !.fetched_ok = @ \cup {k}]
    /\ UNCHANGED <<dbVars, fs, coordVars, dlVars, auxVars>>

\* The loop over the purchase keys: the fetch fails or answers nothing; order
\* is None and the loop continues.
CollectFetchFails ==
    /\ idx.pc = "loop" /\ idx.pos <= Len(idx.keys)
    /\ idx' = [idx EXCEPT !.pos = @ + 1, !.order_id = idx.keys[idx.pos],
                          !.order = NULL]
    /\ UNCHANGED <<dbVars, fs, coordVars, dlVars, auxVars>>

\* After the loop: "if not products:" reads a name that no iteration has
\* assigned (UnboundLocalError), or, for an empty list, a single product is
\* built from the order of the last fetch (AttributeError when that fetch
\* failed) and its assets are collected; then "return assets".
CollectAfterLoop ==
    /\ idx.pc = "loop" /\ idx.pos > Len(idx.keys)
    /\ IF ~idx.bound
       THEN idx' = [idx EXCEPT !.pc = "raised"]
       ELSE IF idx.products # <<>>
            THEN idx' = [idx EXCEPT !.pc = "returned"]
            ELSE IF idx.order = NULL
            THEN idx' = [idx EXCEPT !.pc = "raised"]
            ELSE LET single == IF idx.bundle_title # "" THEN idx.bundle_title
                               ELSE RemoteOrder(idx.order).human_name
                 IN idx' = [idx EXCEPT
                              !.pc = "returned",
                              !.products = <<single>>,
                              !.assets = @ \o CollectProducts(idx.order_id,
                                                idx.bundle_title, <<single>>)]
    /\ UNCHANGED <<dbVars, fs, coordVars, dlVars, auxVars>>

NextIdx ==
    \/ SyncCollect
    \/ CollectFetchOk
    \/ CollectFetchFails
    \/ CollectAfterLoop

SpecIdx == InitIdx /\ [][NextIdx]_vars

\* The products of an order whose assets a pass is to emit: its subproducts,
\* or the order itself as a single product.
ProductsOf(k) ==
    IF RemoteOrder(k).subproducts # <<>>
    THEN {RemoteOrder(k).subproducts[j] : j \in DOMAIN RemoteOrder(k).subproducts}
    ELSE {RemoteOrder(k).human_name}

(* C20: when collect() returns in non-trove mode, the assets of every
   product of every purchase key whose order was fetched have been emitted
   exactly once, for orders with subproducts and without, wherever the key
   sits in the list. *)
C20_EveryKeyOnce ==
    idx.pc = "returned" =>
       \A k \in idx.fetched_ok : \A product \in ProductsOf(k) :
          Cardinality({j \in DOMAIN idx.assets :
                         /\ idx.assets[j].order_id = k
                         /\ idx.assets[j].product_title = product}) = 1

(* C21: a failed order fetch is skipped: whenever some fetch of the pass has
   failed, at the first, a middle or the last key or at every key, collect()
   does not raise. *)
C21_FetchFailureSkipped ==
    LET tried == {idx.keys[j] : j \in 1..(idx.pos - 1)}
    IN (idx.pc \in {"loop", "returned", "raised"} /\ tried \ idx.fetched_ok # {})
          => idx.pc # "raised"

(* C39: a non-trove sync pass walks every purchase key the remote account
   returns, new purchases included: the keys are never restricted to the
   order ids already in the store. *)
C39_SyncWalksRemoteKeys ==
    idx.pc \in {"loop", "returned", "raised"} =>
        Range(idx.remote) \subseteq Range(idx.keys)


(***************************************************************************)
(* SpecProd: one product of an order through the Indexer                   *)
(* (LibraryIndexer._collect_bundle_assets), one file name through the      *)
(* extension filters of the Indexer and of the Download Manager, and one   *)
(* file through the classifier (AssetCategorizer.categorize_with_tags).    *)
(***************************************************************************)
\* filename.split(".")[-1], "." in filename, url.split("?", 1)[0] and
\* url.split("/")[-1] on the strings of the model.
LastDotPart(s) ==
    CASE s = "f1.pdf" -> "pdf"
      [] s = "F2.PDF" -> "PDF"
      [] s = "f2.pdf" -> "pdf"
      [] s = "a.zip" -> "zip"
      [] s = "c.cbz" -> "cbz"
      [] OTHER -> s

HasDot(s) == s \in {"f1.pdf", "F2.PDF", "f2.pdf", "a.zip", "c.cbz"}

_canonical_url(url) ==
    CASE url = "h/f1.pdf?t=1" -> "h/f1.pdf"
      [] OTHER -> url

LastSlashPart(s) ==
    CASE s = "h/f1.pdf" -> "f1.pdf"
      [] s = "h/F2.PDF" -> "F2.PDF"
      [] s = "h/a.zip" -> "a.zip"
      [] s = "h/c.cbz" -> "c.cbz"
      [] s = "h/README" -> "README"
      [] OTHER -> s

\* list(map(str.lower, l)), [] for None.
LowerAll(l) == [i \in DOMAIN l |-> Lower(l[i])]

RECURSIVE Flatten(_)
Flatten(ss) == IF ss = <<>> THEN <<>> ELSE Head(ss) \o Flatten(Tail(ss))

\* The configured lists (state.data "platforms", "include", "exclude").
PlatformLists == {<<>>, <<"linux">>, <<"Windows">>}
ExtLists == {<<>>, <<"pdf">>, <<"PDF", "zip">>}

\* LibraryIndexer.__init__ and DownloadLibrary.__init__: the lists in lowercase.
LibraryIndexer(platforms, ext_include, ext_exclude) ==
    [platforms |-> LowerAll(platforms), ext_include |-> LowerAll(ext_include),
     ext_exclude |-> LowerAll(ext_exclude)]

DownloadLibrary(ext_include, ext_exclude) ==
    [ext_include |-> LowerAll(ext_include), ext_exclude |-> LowerAll(ext_exclude)]

\* LibraryIndexer._should_download_platform: every platform passes.
_should_download_platform(self_, platform) == TRUE

\* LibraryIndexer._should_download_file.
_should_download_file(self_, filename) ==
    LET ext == Lower(LastDotPart(filename)) IN
    IF self_.ext_include # <<>> THEN ext \in Range(self_.ext_include)
    ELSE IF self_.ext_exclude # <<>> THEN ext \notin Range(self_.ext_exclude)
    ELSE TRUE

\* DownloadLibrary._should_download_ext without the lowercasing of ext.
_should_download_ext_AsGiven(self_, ext_) ==
    IF self_.ext_include # <<>> THEN ext_ \in Range(self_.ext_include)
    ELSE IF self_.ext_exclude # <<>> THEN ext_ \notin Range(self_.ext_exclude)
    ELSE TRUE

\* DownloadLibrary._should_download_ext and _should_download_file_by_ext.
_should_download_ext(self_, ext_) ==
    LET ext == Lower(ext_) IN
    IF self_.ext_include # <<>> THEN ext \in Range(self_.ext_include)
    ELSE IF self_.ext_exclude # <<>> THEN ext \notin Range(self_.ext_exclude)
    ELSE TRUE

_should_download_file_by_ext(self_, filename) ==
    _should_download_ext(self_, LastDotPart(filename))

\* ---- AssetCategorizer
EXT_MAP ==
    [e \in {"pdf", "epub", "mobi", "azw3"} |-> "ebook"]
    @@ [e \in {"cbz", "cbr"} |-> "comic"]
    @@ [e \in {"mp3", "flac", "aac", "ogg"} |-> "music"]
    @@ [e \in {"wav"} |-> "sfx"]
    @@ [e \in {"mp4", "mkv", "avi", "mov"} |-> "tutorial"]
    @@ [e \in {"unitypackage"} |-> "unity"]
    @@ [e \in {"fbx", "obj", "blend"} |-> "3d"]
    @@ [e \in {"uasset", "uproject"} |-> "unreal"]
    @@ [e \in {"psd", "png", "jpg", "jpeg"} |-> "art"]
    @@ [e \in {"exe", "msi", "dmg", "pkg", "deb", "rpm", "sh", "appimage",
               "iso", "rom", "img"} |-> "software"]
    @@ [e \in {"apk"} |-> "android"]

ARCHIVE_EXT == {"zip", "tar", "gz", "bz2", "7z", "rar"}

PLATFORM_MAP ==
    [q \in {"audio"} |-> "audio"]
    @@ [q \in {"android", "ebook_apk"} |-> "android"]
    @@ [q \in {"linux", "mac", "macos", "osx", "windows"} |-> "software"]
    @@ [q \in {"steam", "origin", "uplay"} |-> "game"]
    @@ [q \in {"video"} |-> "video"]
    @@ [q \in {"ebook", "ebook_pdf", "ebook_epub", "ebook_mobi"} |-> "ebook"]

\* The patterns of _text_rules that occur in a lowercase file name.
PatternsIn(file_name) ==
    CASE file_name \in {"f1.pdf", "f2.pdf"} -> {"pdf"}
      [] file_name = "c.cbz" -> {"cbz"}
      [] OTHER -> {}

\* The rules of _text_rules in their order: the alternatives of each regular
\* expression and the category it returns.
TextRules ==
    << <<{"comic", "manga", "graphic novel", "cbz", "cbr"}, "comic">>,
       <<{"ebook", "book", "novel", "guide", "pdf", "epub", "mobi"}, "ebook">>,
       <<{"soundtrack", "ost", "music", "score", "flac", "mp3"}, "music">>,
       <<{"sfx", "sound effect", "fx pack", "foley", "sound pack", "soundfx"}, "sfx">>,
       <<{"video", "tutorial", "course", "webinar", "lesson", "masterclass",
          "recording"}, "tutorial">>,
       <<{"dlc", "key", "activation"}, "key">>,
       <<{"unitypackage", "unity "}, "unity">>,
       <<{"unreal", "ue4", "ue5", "uasset", "uproject"}, "unreal">>,
       <<{"3d model", "3d pack", "low poly", "fbx", "obj", "blend", "poly"}, "3d">>,
       <<{"rpg maker", "rmmv", "rm2k", "rpgmaker", "rmxp", "rmvx", "rmz"}, "rpg maker">>,
       <<{"rpg", "role-playing"}, "rpg">>,
       <<{"tile", "tileset", "grid map"}, "tileset">>,
       <<{"sprite", "spritesheet", "pixel art", "icon pack", "ui pack", "art pack",
          "texture", "background", "asset pack", "game dev assets"}, "sprites">>,
       <<{"character", "npc", "enemy pack", "portrait", "bust"}, "characters">>,
       <<{"ui kit", "interface", "hud", "menu"}, "ui">>,
       <<{"linux", "windows", "mac", "appimage", "installer", "exe", "client",
          "tool"}, "software">>,
       <<{"source code", "sourcecode", "unity project", "unreal project", "godot",
          "plugin", "addon"}, "source">> >>

\* _text_rules(text): the category of the first rule that has a pattern in
\* the text (given as the set of patterns that occur in it), NULL for None.
_text_rules(text) ==
    LET hits == {r \in DOMAIN TextRules : TextRules[r][1] \cap text # {}} IN
    IF hits = {} THEN NULL
    ELSE TextRules[CHOOSE r \in hits : \A q \in hits : r <= q][2]

\* add_tag of categorize_with_tags without its "not in tags" test.
add_tag_Always(tags, cat) ==
    IF cat # NULL /\ cat # "" THEN Append(tags, cat) ELSE tags

\* add_tag of categorize_with_tags.
add_tag(tags, cat) ==
    IF cat # NULL /\ cat # "" /\ cat \notin Range(tags) THEN Append(tags, cat) ELSE tags

\* One matched category cat in categorize_with_tags: it becomes the primary
\* if there is none yet, and a tag.
Matched(st, cat) ==
    [primary |-> IF st.primary = NULL THEN cat ELSE st.primary,
     tags |-> add_tag(st.tags, cat)]

MatchedIf(st, cond, cat) == IF cond THEN Matched(st, cat) ELSE st

\* The fallbacks of categorize_with_tags: "if not primary and ...".
Fallback(st, cond, cat) == IF st.primary = NULL /\ cond THEN Matched(st, cat) ELSE st

\* The loop over the AI guesses: st is [primary, tags].
RECURSIVE AiGuesses(_, _)
AiGuesses(st, guesses) ==
    IF guesses = <<>> THEN st
    ELSE AiGuesses(Matched(st, Head(guesses)), Tail(guesses))

ExtCategory(ext) == IF ext \in DOMAIN EXT_MAP THEN EXT_MAP[ext] ELSE NULL
PlatformCategory(platform) ==
    IF platform \in DOMAIN PLATFORM_MAP THEN PLATFORM_MAP[platform] ELSE NULL

PrimaryAndExtras(st) ==
    [primary |-> st.primary, extras |-> SelectSeq(st.tags, LAMBDA t : t # st.primary)]

\* AssetCategorizer.categorize_with_tags; title_text is the set of patterns in
\* the lowercase bundle and product titles, ai_guesses what _ai_guess returns
\* (<<>> for None).
categorize_with_tags(file_name, platform_, title_text, ai_guesses) ==
    LET ext == IF HasDot(file_name) THEN Lower(LastDotPart(file_name)) ELSE ""
        platform == Lower(platform_)
        combined == title_text \cup PatternsIn(Lower(file_name))
        archive_hint == ext \in ARCHIVE_EXT
        text_hit == _text_rules(combined)
    IN PrimaryAndExtras(
         Fallback(
           Fallback(
             Fallback(
               AiGuesses(
                 MatchedIf(
                   MatchedIf(
                     MatchedIf([primary |-> NULL, tags |-> <<>>],
                               ExtCategory(ext) \notin {NULL, "archive"}, ExtCategory(ext)),
                     PlatformCategory(platform) \notin {NULL, "archive"},
                     PlatformCategory(platform)),
                   text_hit # NULL, text_hit),
                 ai_guesses),
               archive_hint, "archive"),
             ExtCategory(ext) # NULL, ExtCategory(ext)),
           TRUE, "other"))

\* ---- LibraryIndexer._collect_bundle_assets on one product
\* An entry of download_struct or of all_tpkds: "" where the entry has no
\* such field.
Entry(platform, key, web) == [platform |-> platform, key |-> key, web |-> web]

DownloadsChoices ==
    { <<>>,
      <<[platform |-> "windows", download_struct |-> <<>>]>>,
      <<[platform |-> "Windows", download_struct |-> <<Entry("", "", "h/f1.pdf?t=1")>>]>>,
      <<[platform |-> "linux",
         download_struct |-> <<Entry("", "", "h/F2.PDF"), Entry("", "", "h/a.zip")>>]>>,
      <<[platform |-> "windows", download_struct |-> <<Entry("", "K1", "")>>]>> }
TpkChoices == {<<>>, <<[key |-> "K2"]>>, <<[key |-> ""]>>}
TpkdChoices == {<<>>, <<Entry("", "K3", "")>>, <<Entry("ebook", "", "h/c.cbz")>>}

\* The products an order can hold ("category" is absent from each).
Products ==
    {[human_name |-> "P1", category |-> NULL, downloads |-> d, all_tpks |-> k,
      all_tpkds |-> t] : d \in DownloadsChoices, k \in TpkChoices, t \in TpkdChoices}

\* The payload of an activation key and of a file with a web url.
KeyAsset(order_id, bundle_title, product_title, platform, key_val) ==
    [_as_asset(order_id, bundle_title, product_title, platform, "key", key_val, "",
               FALSE, <<"key">>, <<>>, 0) EXCEPT !.ext = "", !.activation_key = key_val]

FileAssetOf(order_id, bundle_title, product_title, platform, filename, url, c) ==
    [_as_asset(order_id, bundle_title, product_title, platform, c.primary, filename,
               _canonical_url(url), FALSE, <<c.primary>> \o c.extras, <<url>>, 0)
       EXCEPT !.ext = IF HasDot(filename) THEN Lower(LastDotPart(filename)) ELSE ""]

FileAsset(order_id, bundle_title, product_title, platform, hint, url) ==
    FileAssetOf(order_id, bundle_title, product_title, platform,
                LastSlashPart(_canonical_url(url)), url,
                categorize_with_tags(LastSlashPart(_canonical_url(url)), hint, {}, <<>>))

StubUrl(order_id, product_title) == "stub:" \o order_id \o ":" \o product_title

\* _collect_bundle_assets(order_id, bundle_title, product) of the Indexer self_
\* (no stop_event, no AI endpoint configured; _clean_name leaves the model's
\* titles as they are).  CollectProducts above counts its result per product.
CollectBundleAssets(self_, order_id, bundle_title, product) ==
    LET product_title == product.human_name
        downloads == product.downloads
        all_tpks == product.all_tpks
        tpkd_entries == product.all_tpkds
        OfTpk(tk) == IF tk.key # ""
                     THEN <<KeyAsset(order_id, bundle_title, product_title, "key", tk.key)>>
                     ELSE <<>>
        OfTpkd(entry) ==
            LET platform_hint == Lower(entry.platform) IN
            IF entry.key # ""
            THEN <<KeyAsset(order_id, bundle_title, product_title,
                            IF platform_hint # "" THEN platform_hint ELSE "key", entry.key)>>
            ELSE IF entry.web # ""
                    /\ _should_download_file(self_, LastSlashPart(_canonical_url(entry.web)))
            THEN <<FileAsset(order_id, bundle_title, product_title,
                             IF platform_hint # "" THEN platform_hint ELSE "other",
                             platform_hint, entry.web)>>
            ELSE <<>>
        OfFile(platform_hint, file_type) ==
            LET file_platform == Lower(IF file_type.platform # "" THEN file_type.platform
                                       ELSE platform_hint) IN
            IF ~_should_download_platform(self_, file_platform) THEN <<>>
            ELSE IF file_type.key # ""
            THEN <<KeyAsset(order_id, bundle_title, product_title, "key", file_type.key)>>
            ELSE IF file_type.web # ""
                    /\ _should_download_file(self_, LastSlashPart(_canonical_url(file_type.web)))
            THEN <<FileAsset(order_id, bundle_title, product_title, file_platform,
                             file_platform, file_type.web)>>
            ELSE <<>>
        OfDownload(download_type) ==
            Flatten([j \in DOMAIN download_type.download_struct |->
                        OfFile(Lower(download_type.platform),
                               download_type.download_struct[j])])
        collected == Flatten([j \in DOMAIN all_tpks |-> OfTpk(all_tpks[j])])
                     \o Flatten([j \in DOMAIN tpkd_entries |-> OfTpkd(tpkd_entries[j])])
        stub_category ==
            Lower(IF product.category # NULL /\ product.category # "" THEN product.category
                  ELSE IF bundle_title # "" THEN bundle_title ELSE "other")
    IN IF downloads = <<>> /\ all_tpks = <<>> /\ tpkd_entries = <<>>
       THEN Append(collected,
                   _as_asset(order_id, bundle_title, product_title, "other",
                             IF stub_category = "" THEN "other" ELSE stub_category,
                             product_title \o ".stub", StubUrl(order_id, product_title),
                             FALSE,
                             <<IF stub_category = "" THEN "other" ELSE stub_category, "stub">>,
                             <<>>, 0))
       ELSE collected \o Flatten([j \in DOMAIN downloads |-> OfDownload(downloads[j])])

\* ---- the inputs of the filters and of the classifier
FileNames == {"f1.pdf", "F2.PDF", "a.zip", "c.cbz", "README"}
PlatformHints == {"", "windows", "Windows", "ebook"}
TitleTexts == {{}, {"comic"}, {"book", "tool"}, {"tool"}}
AiAnswers == {<<>>, <<"tileset">>, <<"comic", "ebook">>, <<"archive">>}

InitProd ==
    /\ assets = <<>> /\ asset_tags = {} /\ assets_fts = <<>>
    /\ sqlite_sequence = 0 /\ nops = 0 /\ op = NoOp
    /\ fs = <<>>
    /\ CoordIdle
    /\ DLIdle
    /\ IdxIdle
    /\ bus = [pc |-> "idle"] /\ meta = [pc |-> "idle"]
    /\ \E pl \in PlatformLists, inc \in ExtLists, exc \in ExtLists :
          prod = [pc |-> "start", platforms |-> pl, include |-> inc, exclude |-> exc]

\* The Indexer built from the configuration collects one product of order o1.
CollectProduct ==
    /\ prod.pc = "start"
    /\ \E p \in Products :
          prod' = [pc |-> "collected", platforms |-> prod.platforms,
                   include |-> prod.include, exclude |-> prod.exclude, product |-> p,
                   collected |-> CollectBundleAssets(
                       LibraryIndexer(prod.platforms, prod.include, prod.exclude),
                       "o1", "B1", p)]
    /\ UNCHANGED <<dbVars, fs, coordVars, dlVars, idx, bus, meta>>

\* The Indexer and the Download Manager built from the same configuration
\* decide about one file name.
FilterFile ==
    /\ prod.pc = "start"
    /\ \E f \in FileNames :
          prod' = [pc |-> "filtered", platforms |-> prod.platforms,
                   include |-> prod.include, exclude |-> prod.exclude, filename |-> f,
                   indexer |-> _should_download_file(
                       LibraryIndexer(prod.platforms, prod.include, prod.exclude), f),
                   manager |-> _should_download_file_by_ext(
                       DownloadLibrary(prod.include, prod.exclude), f)]
    /\ UNCHANGED <<dbVars, fs, coordVars, dlVars, idx, bus, meta>>

\* The classifier is called for one file.
Categorize ==
    /\ prod.pc = "start"
    /\ \E f \in FileNames, h \in PlatformHints, tt \in TitleTexts, ai \in AiAnswers :
          prod' = [pc |-> "categorized", platforms |-> prod.platforms,
                   include |-> prod.include, exclude |-> prod.exclude, file_name |-> f,
                   platform |-> h, title_text |-> tt, ai_guesses |-> ai,
                   result |-> categorize_with_tags(f, h, tt, ai)]
    /\ UNCHANGED <<dbVars, fs, coordVars, dlVars, idx, bus, meta>>

NextProd ==
    \/ CollectProduct
    \/ FilterFile
    \/ Categorize

SpecProd == InitProd /\ [][NextProd]_vars

(* C22: a product with neither downloadable files nor keys gets exactly one
   stub asset, with a non-empty url made of its order and product, and a
   product with at least one download or key gets no stub. *)
C22_StubForEmptyProduct ==
    prod.pc = "collected" =>
        LET p == prod.product
            files == Flatten([j \in DOMAIN p.downloads |-> p.downloads[j].download_struct])
                       \o p.all_tpkds
            hasFileOrKey == \/ \E j \in DOMAIN files : files[j].web # "" \/ files[j].key # ""
                            \/ \E j \in DOMAIN p.all_tpks : p.all_tpks[j].key # ""
            stubs == {j \in DOMAIN prod.collected : "stub" \in Range(prod.collected[j].tags)}
        IN IF hasFileOrKey THEN stubs = {}
           ELSE /\ Cardinality(stubs) = 1
                /\ \A j \in stubs : prod.collected[j].url = StubUrl("o1", p.human_name)

(* C28: with a non-empty platform allow-list the Indexer emits no file asset
   whose platform, in lowercase, is outside the list. *)
C28_PlatformAllowList ==
    (prod.pc = "collected" /\ prod.platforms # <<>>) =>
        \A j \in DOMAIN prod.collected :
            LET a == prod.collected[j] IN
            (a.download_urls # <<>>) =>
                Lower(a.platform) \in Range(LowerAll(prod.platforms))

(* C29: the extension filter passes a file iff the include-list is non-empty
   and holds the lowercase extension, or the include-list is empty and the
   non-empty exclude-list does not hold it, or both lists are empty; the
   Indexer's and the Download Manager's filters give that same answer. *)
C29_ExtensionFilter ==
    prod.pc = "filtered" =>
        LET ext == Lower(LastDotPart(prod.filename))
            inc == Range(LowerAll(prod.include))
            exc == Range(LowerAll(prod.exclude))
            pass == \/ inc # {} /\ ext \in inc
                    \/ inc = {} /\ exc # {} /\ ext \notin exc
                    \/ inc = {} /\ exc = {}
        IN prod.indexer = pass /\ prod.manager = pass

\* C29's case: an upper-case file name meets an upper-case include-list and
\* passes both filters, although the exclude-list names its extension too.
C29_Witness ==
    /\ prod.pc = "filtered"
    /\ prod.filename = "F2.PDF" /\ prod.include = <<"PDF", "zip">>
    /\ prod.exclude = <<"pdf">>
    /\ prod.indexer /\ prod.manager

(* C30: a mapped extension gives the primary category whatever the platform
   hint, the title text and the AI guesses are; an archive extension with no
   platform hit, no text hit and no AI guess gives "archive"; the extra tags
   never hold the primary and hold no tag twice. *)
C30_ExtensionWins ==
    prod.pc = "categorized" =>
        LET f == prod.file_name
            ext == IF HasDot(f) THEN Lower(LastDotPart(f)) ELSE ""
            r == prod.result
        IN /\ (ext \in DOMAIN EXT_MAP /\ EXT_MAP[ext] # "archive")
                  => r.primary = EXT_MAP[ext]
           /\ (/\ ext \in ARCHIVE_EXT
               /\ Lower(prod.platform) \notin DOMAIN PLATFORM_MAP
               /\ _text_rules(prod.title_text \cup PatternsIn(Lower(f))) = NULL
               /\ prod.ai_guesses = <<>>)
                  => r.primary = "archive"
           /\ r.primary \notin Range(r.extras)
           /\ \A a, b \in DOMAIN r.extras : a # b => r.extras[a] # r.extras[b]

\* C30's case: a comic file with an ebook platform hint and AI guesses that
\* repeat both categories keeps "comic" and gets "ebook" once.
C30_Witness ==
    /\ prod.pc = "categorized"
    /\ prod.file_name = "c.cbz" /\ prod.platform = "ebook"
    /\ prod.ai_guesses = <<"comic", "ebook">>
    /\ prod.result = [primary |-> "comic", extras |-> <<"ebook">>]


(***************************************************************************)
(* SpecBus: the EventBus of ui_server.py.  Queues are numbered as they are *)
(* created, events as they are published.  The handlers of /ws/updates     *)
(* subscribe on the server's running loop and unsubscribe before they end, *)
(* so the loop of an async subscriber runs the callbacks it is handed.     *)
(***************************************************************************)
\* queue.Queue.put / asyncio.Queue.put_nowait on an unbounded queue.
put_Twice(q, event) == q \o <<event, event>>
put(q, event) == Append(q, event)

RemoveAll(l, x) == SelectSeq(l, LAMBDA y : y # x)

InitBus ==
    /\ assets = <<>> /\ asset_tags = {} /\ assets_fts = <<>>
    /\ sqlite_sequence = 0 /\ nops = 0 /\ op = NoOp
    /\ fs = <<>>
    /\ CoordIdle
    /\ DLIdle
    /\ IdxIdle
    /\ prod = [pc |-> "idle"] /\ meta = [pc |-> "idle"]
    /\ bus = [_subscribers |-> <<>>, _async_subscribers |-> <<>>,
              queues |-> [q \in 1..MaxQueues |-> <<>>],
              enqueued |-> [q \in 1..MaxQueues |-> <<>>],
              loop |-> <<>>,
              pc |-> "idle", event |-> 0, targets |-> <<>>, async_targets |-> <<>>,
              nqueues |-> 0, nevents |-> 0,
              subscribed_at |-> [e \in 1..MaxEvents |-> {}]]

\* subscribe(): a new queue is appended to _subscribers.
Subscribe ==
    /\ bus.nqueues < MaxQueues
    /\ bus' = [bus EXCEPT !.nqueues = @ + 1,
                          !._subscribers = Append(@, bus.nqueues + 1)]
    /\ UNCHANGED <<dbVars, fs, coordVars, dlVars, idx, prod, meta>>

\* subscribe_async() of a /ws/updates handler: a new queue with the running
\* loop is appended to _async_subscribers.
SubscribeAsync ==
    /\ bus.nqueues < MaxQueues
    /\ bus' = [bus EXCEPT !.nqueues = @ + 1,
                          !._async_subscribers = Append(@, bus.nqueues + 1)]
    /\ UNCHANGED <<dbVars, fs, coordVars, dlVars, idx, prod, meta>>

\* unsubscribe(q).
Unsubscribe(q) ==
    /\ q \in Range(bus._subscribers)
    /\ bus' = [bus EXCEPT !._subscribers = RemoveAll(@, q)]
    /\ UNCHANGED <<dbVars, fs, coordVars, dlVars, idx, prod, meta>>

\* unsubscribe_async(q), the "finally" of the /ws/updates handler.
UnsubscribeAsync(q) ==
    /\ q \in Range(bus._async_subscribers)
    /\ bus' = [bus EXCEPT !._async_subscribers = RemoveAll(@, q)]
    /\ UNCHANGED <<dbVars, fs, coordVars, dlVars, idx, prod, meta>>

\* publish(event): under the lock the two subscriber lists are copied.
PublishCopy ==
    /\ bus.pc = "idle" /\ bus.nevents < MaxEvents
    /\ bus' = [bus EXCEPT !.pc = "put", !.nevents = @ + 1, !.event = bus.nevents + 1,
                          !.targets = bus._subscribers,
                          !.async_targets = bus._async_subscribers,
                          !.subscribed_at[bus.nevents + 1] =
                              Range(bus._subscribers) \cup Range(bus._async_subscribers)]
    /\ UNCHANGED <<dbVars, fs, coordVars, dlVars, idx, prod, meta>>

\* publish: "for q in targets: q.put(event)", one queue.
PublishPut ==
    /\ bus.pc = "put" /\ bus.targets # <<>>
    /\ LET q == Head(bus.targets) IN
       bus' = [bus EXCEPT !.targets = Tail(@),
                          !.queues[q] = put(@, bus.event),
                          !.enqueued[q] = put(@, bus.event)]
    /\ UNCHANGED <<dbVars, fs, coordVars, dlVars, idx, prod, meta>>

\* publish: "loop.call_soon_threadsafe(aq.put_nowait, event)", one queue.
PublishCallSoon ==
    /\ bus.pc = "put" /\ bus.targets = <<>> /\ bus.async_targets # <<>>
    /\ bus' = [bus EXCEPT !.async_targets = Tail(@),
                          !.loop = Append(@, <<Head(bus.async_targets), bus.event>>)]
    /\ UNCHANGED <<dbVars, fs, coordVars, dlVars, idx, prod, meta>>

\* publish returns.
PublishReturn ==
    /\ bus.pc = "put" /\ bus.targets = <<>> /\ bus.async_targets = <<>>
    /\ bus' = [bus EXCEPT !.pc = "idle"]
    /\ UNCHANGED <<dbVars, fs, coordVars, dlVars, idx, prod, meta>>

\* The event loop runs its next callback: aq.put_nowait(event).
LoopRuns ==
    /\ bus.loop # <<>>
    /\ LET q == Head(bus.loop)[1]
           event == Head(bus.loop)[2]
       IN bus' = [bus EXCEPT !.loop = Tail(@),
                             !.queues[q] = put(@, event),
                             !.enqueued[q] = put(@, event)]
    /\ UNCHANGED <<dbVars, fs, coordVars, dlVars, idx, prod, meta>>

\* ws_updates: "event = await q.get()" of a subscribed handler, the event is
\* sent to the client.
WsGet(q) ==
    /\ q \in Range(bus._async_subscribers) /\ bus.queues[q] # <<>>
    /\ bus' = [bus EXCEPT !.queues[q] = Tail(@)]
    /\ UNCHANGED <<dbVars, fs, coordVars, dlVars, idx, prod, meta>>

NextBus ==
    \/ Subscribe
    \/ SubscribeAsync
    \/ \E q \in 1..MaxQueues : Unsubscribe(q)
    \/ \E q \in 1..MaxQueues : UnsubscribeAsync(q)
    \/ PublishCopy
    \/ PublishPut
    \/ PublishCallSoon
    \/ PublishReturn
    \/ LoopRuns
    \/ \E q \in 1..MaxQueues : WsGet(q)

SpecBus == InitBus /\ [][NextBus]_vars

(* C26: a published event is enqueued exactly once on every queue subscribed
   at the moment of the publish and never on another queue: counting what a
   queue was given, what the loop still has to give it and what publish has
   not handed over yet, each event is there once for a queue subscribed at
   its publish and not at all for any other queue, late joiners included. *)
C26_PublishToCurrentSubscribers ==
    \A e \in 1..bus.nevents, q \in 1..MaxQueues :
        LET given == Cardinality({j \in DOMAIN bus.enqueued[q] : bus.enqueued[q][j] = e})
            scheduled == Cardinality({j \in DOMAIN bus.loop : bus.loop[j] = <<q, e>>})
            unsent == IF bus.pc = "put" /\ bus.event = e
                         /\ q \in Range(bus.targets) \cup Range(bus.async_targets)
                      THEN 1 ELSE 0
        IN given + scheduled + unsent = IF q \in bus.subscribed_at[e] THEN 1 ELSE 0

\* C26's case: queue 1 was subscribed before the first event, queue 2 joined
\* after it: queue 1 was given both events, queue 2 only the second.
C26_Witness ==
    /\ bus.nevents = 2 /\ bus.pc = "idle" /\ bus.loop = <<>>
    /\ bus.enqueued[1] = <<1, 2>>
    /\ bus.enqueued[2] = <<2>>
    /\ 2 \in Range(bus._async_subscribers)


(***************************************************************************)
(* SpecMeta: one background enrichment pass, Coordinator._metadata_pass    *)
(* called by the metadata worker, with an AI endpoint configured and no    *)
(* cancellation.  Each step finds MetaItems items; a store call may raise  *)
(* (sqlite3.OperationalError), a network call may fail.                    *)
(***************************************************************************)
MetaSteps == <<"categories", "backfill", "orders", "descriptions">>

\* The loop of a step at its head: the next item, or the next step.
MetaNext(m, step) ==
    IF m.i < MetaItems
    THEN [m EXCEPT !.pc = step, !.i = @ + 1, !.handled = @ \cup {<<step, m.i>>}]
    ELSE [m EXCEPT !.i = 1, !.handled = @ \cup {<<step, m.i>>},
                   !.pc = CASE step = "categories" -> "backfill"
                            [] step = "backfill" -> "orders"
                            [] step = "orders" -> "descriptions"
                            [] OTHER -> "summary"]

\* An exception that no handler of the pass catches leaves _metadata_pass;
\* _worker logs "Metadata worker failed".
MetaRaise(m, call) ==
    [m EXCEPT !.pc = "failed", !.raised = @ \cup {<<call, m.i>>}]

InitMeta ==
    /\ assets = <<>> /\ asset_tags = {} /\ assets_fts = <<>>
    /\ sqlite_sequence = 0 /\ nops = 0 /\ op = NoOp
    /\ fs = <<>>
    /\ CoordIdle
    /\ DLIdle
    /\ IdxIdle
    /\ prod = [pc |-> "idle"] /\ bus = [pc |-> "idle"]
    /\ meta = [pc |-> "categories", i |-> 1, handled |-> {}, raised |-> {}, caught |-> {}]

\* _metadata_pass, categories: categorize_with_tags returns a category and
\* db.set_category is called, outside any try.
MetaSetCategory ==
    /\ meta.pc = "categories"
    /\ \/ meta' = [meta EXCEPT !.pc = "add_tags"]
       \/ meta' = MetaRaise(meta, "set_category")
    /\ UNCHANGED <<dbVars, fs, coordVars, dlVars, idx, prod, bus>>

\* _metadata_pass, categories: db.add_tags inside try / except Exception.
MetaAddTags ==
    /\ meta.pc = "add_tags"
    /\ \/ meta' = MetaNext(meta, "categories")
       \/ meta' = MetaNext([meta EXCEPT !.caught = @ \cup {<<"add_tags", meta.i>>}],
                           "categories")
    /\ UNCHANGED <<dbVars, fs, coordVars, dlVars, idx, prod, bus>>

\* _backfill_category_tags: db.add_tags inside try / except Exception.
MetaBackfill ==
    /\ meta.pc = "backfill"
    /\ \/ meta' = MetaNext(meta, "backfill")
       \/ meta' = MetaNext([meta EXCEPT !.caught = @ \cup {<<"backfill", meta.i>>}],
                           "backfill")
    /\ UNCHANGED <<dbVars, fs, coordVars, dlVars, idx, prod, bus>>

\* _fill_meta_from_orders: indexer._fetch_order returns the order, or logs
\* its failure and returns None ("if not order: continue").
MetaFetchOrder ==
    /\ meta.pc = "orders"
    /\ \/ meta' = [meta EXCEPT !.pc = "order_write"]
       \/ meta' = MetaNext([meta EXCEPT !.caught = @ \cup {<<"_fetch_order", meta.i>>}],
                           "orders")
    /\ UNCHANGED <<dbVars, fs, coordVars, dlVars, idx, prod, bus>>

\* _fill_meta_from_orders: db.set_image_url and db.set_description for the
\* assets of the order, outside any try.
MetaOrderWrite ==
    /\ meta.pc = "order_write"
    /\ \/ meta' = MetaNext(meta, "orders")
       \/ meta' = MetaRaise(meta, "set_image_url")
    /\ UNCHANGED <<dbVars, fs, coordVars, dlVars, idx, prod, bus>>

\* _fill_descriptions_ai: _openwebui_generate returns a text, or catches
\* its failure and returns None.
MetaGenerate ==
    /\ meta.pc = "descriptions"
    /\ \/ meta' = [meta EXCEPT !.pc = "desc_write"]
       \/ meta' = MetaNext([meta EXCEPT !.caught = @ \cup {<<"_openwebui_generate", meta.i>>}],
                           "descriptions")
    /\ UNCHANGED <<dbVars, fs, coordVars, dlVars, idx, prod, bus>>

\* _fill_descriptions_ai: db.set_description outside any try, then
\* db.add_tags inside try / except Exception.
MetaDescWrite ==
    /\ meta.pc = "desc_write"
    /\ \/ meta' = MetaNext(meta, "descriptions")
       \/ meta' = MetaNext([meta EXCEPT !.caught = @ \cup {<<"add_tags", meta.i>>}],
                           "descriptions")
       \/ meta' = MetaRaise(meta, "set_description")
    /\ UNCHANGED <<dbVars, fs, coordVars, dlVars, idx, prod, bus>>

\* _metadata_pass: category_counts and "Metadata pass complete".
MetaComplete ==
    /\ meta.pc = "summary"
    /\ meta' = [meta EXCEPT !.pc = "complete"]
    /\ UNCHANGED <<dbVars, fs, coordVars, dlVars, idx, prod, bus>>

NextMeta ==
    \/ MetaSetCategory
    \/ MetaAddTags
    \/ MetaBackfill
    \/ MetaFetchOrder
    \/ MetaOrderWrite
    \/ MetaGenerate
    \/ MetaDescWrite
    \/ MetaComplete

SpecMeta == InitMeta /\ [][NextMeta]_vars

(* C27: an exception raised for one asset or one order of an enrichment pass
   does not abort the pass: when the pass has ended, every item of every
   step has been processed. *)
C27_PassSurvivesItemFailure ==
    meta.pc \in {"complete", "failed"} =>
        \A k \in DOMAIN MetaSteps, j \in 1..MetaItems : <<MetaSteps[k], j>> \in meta.handled

=============================================================================
